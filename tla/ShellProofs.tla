---------------------------- MODULE ShellProofs ----------------------------
(***************************************************************************)
(* Commands, for any number of terminals and any directory: every program  *)
(* is the one that its command names and gets the argument of its command, *)
(* and the shell says truly whether it ended by an exception.              *)
(***************************************************************************)
EXTENDS Shell, SequenceTheorems, WellFoundedInduction, TLAPS

Less == {mn \in Nat \X Nat : mn[1] < mn[2]}

\* Every set of numbers that has an element has a least one.
LEMMA Least ==
    ASSUME NEW C, C \subseteq Nat, C # {}
    PROVE  \E m \in C : \A k \in C : m <= k
<1>1. IsWellFoundedOn(Less, Nat)
    BY NatLessThanWellFounded DEF OpToRel, Less
<1>2. PICK m \in C : \A k \in C : ~(<<k, m>> \in Less)
    BY <1>1, WFMin
<1>3. ASSUME NEW k \in C PROVE m <= k
    <2>1. ~(k < m) /\ k \in Nat /\ m \in Nat
        BY <1>2 DEF Less
    <2> QED
        BY <2>1
<1> QED
    BY <1>3

-----------------------------------------------------------------------------
(* parse reads a command as it is to be read *)

\* The first blank, or the first other character, from i on.
LEMMA FirstFromIs ==
    ASSUME NEW line \in Seq(Char), NEW i \in 1 .. Len(line) + 1, NEW blank \in BOOLEAN
    PROVE  LET k == FirstFrom(line, i, blank)
           IN /\ k \in i .. Len(line) + 1
              /\ k = Len(line) + 1 \/ (line[k] = SPACE) = blank
              /\ \A j \in i .. k - 1 : (line[j] = SPACE) # blank
<1> DEFINE n == Len(line) + 1
           C == {k \in i .. n : k = n \/ (line[k] = SPACE) = blank}
           Is(k) == /\ k = n \/ (line[k] = SPACE) = blank
                    /\ \A j \in i .. k - 1 : (line[j] = SPACE) # blank
<1>1. n \in Nat /\ i \in Nat /\ n \in i .. n
    BY LenProperties
<1>2. C \subseteq Nat /\ C # {}
    BY <1>1
<1>3. PICK m \in C : \A k \in C : m <= k
    BY <1>2, Least
<1>4. Is(m)
    <2>1. ASSUME NEW j \in i .. m - 1 PROVE (line[j] = SPACE) # blank
        <3>1. j \in i .. n /\ ~(m <= j)
            BY <1>1, <1>3
        <3> QED
            BY <1>3, <3>1
    <2> QED
        BY <1>3, <2>1
<1>5. FirstFrom(line, i, blank) = CHOOSE k \in i .. n : Is(k)
    BY DEF FirstFrom
<1>6. m \in i .. n
    BY <1>3
<1> HIDE DEF Is, C, n
<1>7. FirstFrom(line, i, blank) \in i .. n /\ Is(FirstFrom(line, i, blank))
    BY <1>4, <1>5, <1>6
<1> QED
    BY <1>7 DEF Is, n

\* A part of a line.
LEMMA PartOfLine ==
    ASSUME NEW line \in Seq(Char), NEW a \in 1 .. Len(line) + 1, NEW b \in a .. Len(line) + 1
    PROVE  /\ SubSeq(line, a, b - 1) \in Seq(Char)
           /\ Len(SubSeq(line, a, b - 1)) = b - a
           /\ \A i \in 1 .. b - a : SubSeq(line, a, b - 1)[i] = line[a + (i - 1)]
<1>1. Len(line) \in Nat /\ \A i \in 1 .. Len(line) : line[i] \in Char
    BY LenProperties
<1>2. a \in Int /\ b - 1 \in Int /\ \A i \in a .. b - 1 : line[i] \in Char
    BY <1>1
<1>3. /\ SubSeq(line, a, b - 1) \in Seq(Char)
      /\ Len(SubSeq(line, a, b - 1)) = IF a <= b - 1 THEN (b - 1) - a + 1 ELSE 0
      /\ \A i \in 1 .. (b - 1) - a + 1 : SubSeq(line, a, b - 1)[i] = line[a + i - 1]
    BY <1>2, SubSeqProperties
<1>4. (b - 1) - a + 1 = b - a
    BY <1>1
<1>5. Len(SubSeq(line, a, b - 1)) = b - a
    BY <1>1, <1>3, <1>4
<1>6. ASSUME NEW i \in 1 .. b - a
      PROVE  SubSeq(line, a, b - 1)[i] = line[a + (i - 1)]
    <2>1. a + i - 1 = a + (i - 1)
        BY <1>1
    <2> QED
        BY <1>3, <1>4, <2>1
<1> QED
    BY <1>3, <1>5, <1>6

\* Where a line has blanks only, it is a sequence of blanks.
LEMMA BlankPart ==
    ASSUME NEW line \in Seq(Char), NEW a \in 1 .. Len(line) + 1, NEW b \in a .. Len(line) + 1,
           \A j \in a .. b - 1 : line[j] = SPACE
    PROVE  SubSeq(line, a, b - 1) = Blanks(b - a)
<1>1. b - a \in Nat /\ a \in Nat
    BY LenProperties
<1>2. Blanks(b - a) \in Seq({SPACE}) /\ Len(Blanks(b - a)) = b - a
    BY <1>1 DEF Blanks
<1>3. SPACE \in Char
    BY ShellAssumption
<1>4. Blanks(b - a) \in Seq(Char)
    BY <1>1, <1>3 DEF Blanks
<1>5. \A i \in 1 .. b - a : Blanks(b - a)[i] = SPACE
    BY DEF Blanks
<1>6. \A i \in 1 .. b - a : a + (i - 1) \in a .. b - 1
    BY <1>1
<1>7. /\ SubSeq(line, a, b - 1) \in Seq(Char)
      /\ Len(SubSeq(line, a, b - 1)) = b - a
      /\ \A i \in 1 .. b - a : SubSeq(line, a, b - 1)[i] = line[a + (i - 1)]
    BY PartOfLine
<1> HIDE DEF Blanks
<1> QED
    BY <1>2, <1>4, <1>5, <1>6, <1>7, SeqEqual

\* parse splits a command as it is to be read, and a command that it accepts has
\* room for its argument and the terminator.
LEMMA ParseReads ==
    ASSUME NEW line \in Seq(Char)
    PROVE  LET p == parse(line)
           IN /\ p.filename \in Seq(Char) /\ p.arg \in Seq(Char)
              /\ Reads(line, p.filename, p.arg)
              /\ p.ok => Len(p.arg) < MAX_ARG_LEN
<1> DEFINE L == Len(line)
           begin == FirstFrom(line, 1, FALSE)
           stop == FirstFrom(line, begin, TRUE)
           argBegin == FirstFrom(line, stop, FALSE)
           name == SubSeq(line, begin, stop - 1)
           arg == SubSeq(line, argBegin, L)
<1>0. L \in Nat
    BY LenProperties
<1>1. /\ begin \in 1 .. L + 1
      /\ begin = L + 1 \/ line[begin] # SPACE
      /\ \A j \in 1 .. begin - 1 : line[j] = SPACE
    <2>1. 1 \in 1 .. L + 1
        BY <1>0
    <2> QED
        BY <2>1, FirstFromIs
<1> HIDE DEF begin
<1>2. /\ stop \in begin .. L + 1
      /\ stop = L + 1 \/ line[stop] = SPACE
      /\ \A j \in begin .. stop - 1 : line[j] # SPACE
    BY <1>1, FirstFromIs
<1> HIDE DEF stop
<1>3. /\ argBegin \in stop .. L + 1
      /\ argBegin = L + 1 \/ line[argBegin] # SPACE
      /\ \A j \in stop .. argBegin - 1 : line[j] = SPACE
    <2>1. stop \in 1 .. L + 1
        BY <1>0, <1>1, <1>2
    <2> QED
        BY <2>1, FirstFromIs
<1> HIDE DEF argBegin
<1>4. /\ parse(line).filename = name
      /\ parse(line).arg = arg
      /\ parse(line).ok = /\ stop - begin <= MAX_FILE_LEN
                          /\ L + 1 - argBegin <= MAX_ARG_LEN - (stop - begin)
    BY DEF parse, ArgBegin, begin, stop, argBegin
<1>5. /\ name \in Seq(Char) /\ Len(name) = stop - begin
      /\ \A i \in 1 .. stop - begin : name[i] = line[begin + (i - 1)]
    <2>1. begin \in 1 .. L + 1 /\ stop \in begin .. L + 1
        BY <1>1, <1>2
    <2> QED
        BY <2>1, PartOfLine
<1>6. /\ arg \in Seq(Char) /\ Len(arg) = L + 1 - argBegin
      /\ argBegin <= L => arg[1] = line[argBegin]
    <2>1. argBegin \in 1 .. L + 1 /\ L + 1 \in argBegin .. L + 1 /\ (L + 1) - 1 = L
        BY <1>0, <1>1, <1>2, <1>3
    <2>2. /\ arg \in Seq(Char) /\ Len(arg) = L + 1 - argBegin
          /\ \A i \in 1 .. L + 1 - argBegin : arg[i] = line[argBegin + (i - 1)]
        BY <2>1, PartOfLine
    <2>3. argBegin <= L => 1 \in 1 .. L + 1 - argBegin /\ argBegin + (1 - 1) = argBegin
        BY <1>0, <2>1
    <2> QED
        BY <2>2, <2>3
<1>7. \E i, j \in 0 .. L : /\ line = Blanks(i) \o name \o Blanks(j) \o arg
                           /\ arg # <<>> => j > 0 /\ arg[1] # SPACE
    <2> DEFINE i == begin - 1
               j == argBegin - stop
    <2>1. i \in 0 .. L /\ j \in 0 .. L
        BY <1>0, <1>1, <1>2, <1>3
    <2>2. SubSeq(line, 1, begin - 1) = Blanks(i)
        <3>1. 1 \in 1 .. L + 1 /\ begin \in 1 .. L + 1
            BY <1>0, <1>1
        <3> QED
            BY <1>1, <3>1, BlankPart
    <2>3. SubSeq(line, stop, argBegin - 1) = Blanks(j)
        <3>1. stop \in 1 .. L + 1 /\ argBegin \in stop .. L + 1
            BY <1>0, <1>1, <1>2, <1>3
        <3> QED
            BY <1>3, <3>1, BlankPart
    <2>4. SubSeq(line, 1, begin - 1) \o SubSeq(line, begin, stop - 1) = SubSeq(line, 1, stop - 1)
        <3>1. /\ 1 \in 1 .. L + 1 /\ begin - 1 \in 1 - 1 .. L /\ stop - 1 \in begin - 1 .. L
              /\ (begin - 1) + 1 = begin
            BY <1>0, <1>1, <1>2
        <3> QED
            BY <3>1, ConcatAdjacentSubSeq
    <2>5. SubSeq(line, 1, stop - 1) \o SubSeq(line, stop, argBegin - 1)
            = SubSeq(line, 1, argBegin - 1)
        <3>1. /\ 1 \in 1 .. L + 1 /\ stop - 1 \in 1 - 1 .. L /\ argBegin - 1 \in stop - 1 .. L
              /\ (stop - 1) + 1 = stop
            BY <1>0, <1>1, <1>2, <1>3
        <3> QED
            BY <3>1, ConcatAdjacentSubSeq
    <2>6. SubSeq(line, 1, argBegin - 1) \o SubSeq(line, argBegin, L) = SubSeq(line, 1, L)
        <3>1. /\ 1 \in 1 .. L + 1 /\ argBegin - 1 \in 1 - 1 .. L /\ L \in argBegin - 1 .. L
              /\ (argBegin - 1) + 1 = argBegin
            BY <1>0, <1>1, <1>2, <1>3
        <3> QED
            BY <3>1, ConcatAdjacentSubSeq
    <2>7. line = Blanks(i) \o name \o Blanks(j) \o arg
        BY <2>2, <2>3, <2>4, <2>5, <2>6, SubSeqFull
    <2>8. ASSUME arg # <<>> PROVE j > 0 /\ arg[1] # SPACE
        <3>1. argBegin <= L
            BY <1>0, <1>1, <1>2, <1>3, <1>6, <2>8, EmptySeq
        <3>2. line[argBegin] # SPACE /\ arg[1] = line[argBegin]
            BY <1>0, <1>3, <1>6, <3>1
        <3>3. stop # argBegin
            BY <1>0, <1>2, <3>1, <3>2
        <3> QED
            BY <1>0, <1>1, <1>2, <1>3, <3>2, <3>3
    <2> HIDE DEF i, j
    <2> QED
        BY <2>1, <2>7, <2>8
<1>8. \A k \in DOMAIN name : name[k] # SPACE
    <2> SUFFICES ASSUME NEW k \in DOMAIN name PROVE name[k] # SPACE
        OBVIOUS
    <2>1. k \in 1 .. stop - begin
        BY <1>5, LenProperties
    <2>2. begin + (k - 1) \in begin .. stop - 1
        BY <1>0, <1>1, <1>2, <2>1
    <2> QED
        BY <1>2, <1>5, <2>1, <2>2
<1>9. ASSUME name = <<>> PROVE arg = <<>>
    <2>1. stop = begin
        BY <1>0, <1>1, <1>2, <1>5, <1>9, EmptySeq
    <2>2. begin = L + 1
        BY <1>1, <1>2, <2>1
    <2>3. Len(arg) = 0
        BY <1>0, <1>3, <1>6, <2>1, <2>2
    <2> QED
        BY <1>6, <2>3, EmptySeq
<1>10. parse(line).ok => Len(arg) < MAX_ARG_LEN
    <2>1. MAX_ARG_LEN \in Nat /\ MAX_ARG_LEN > 0
        BY ShellAssumption
    <2>2. CASE name = <<>>
        <3>1. Len(arg) = 0
            BY <1>9, <2>2, EmptySeq
        <3> QED
            BY <2>1, <3>1
    <2>3. CASE name # <<>>
        <3>1. stop - begin \in Nat \ {0}
            BY <1>5, <2>3, EmptySeq
        <3>2. ASSUME parse(line).ok PROVE L + 1 - argBegin <= MAX_ARG_LEN - (stop - begin)
            BY <1>4, <3>2
        <3>3. L + 1 - argBegin \in Int
            BY <1>0, <1>1, <1>2, <1>3
        <3> QED
            BY <1>6, <2>1, <3>1, <3>2, <3>3
    <2> QED
        BY <2>2, <2>3
<1> HIDE DEF name, arg
<1>11. Reads(line, name, arg)
    BY <1>7, <1>8, <1>9 DEF Reads
<1> QED
    BY <1>4, <1>5, <1>6, <1>10, <1>11

-----------------------------------------------------------------------------
(* What the actions do to a terminal's stack *)

Stack == Seq(Process) \ {<<>>}

\* The top of a stack, and the rest of it.
LEMMA TopOf ==
    ASSUME NEW s \in Stack
    PROVE  /\ Len(s) \in Nat \ {0} /\ Last(s) \in Process
           /\ Front(s) \in Seq(Process) /\ Len(Front(s)) = Len(s) - 1
           /\ \A i \in 1 .. Len(s) - 1 : Front(s)[i] = s[i]
           /\ Head(s) = s[1]
<1>1. s \in Seq(Process) /\ Len(s) \in Nat \ {0} /\ Head(s) = s[1]
    BY EmptySeq DEF Stack
<1>2. \A i \in 1 .. Len(s) : s[i] \in Process
    BY <1>1, ElementOfSeq
<1>3. 1 \in Int /\ Len(s) - 1 \in Int /\ \A i \in 1 .. Len(s) - 1 : s[i] \in Process
    BY <1>1, <1>2
<1>4. /\ Front(s) \in Seq(Process)
      /\ Len(Front(s)) = IF 1 <= Len(s) - 1 THEN (Len(s) - 1) - 1 + 1 ELSE 0
      /\ \A i \in 1 .. (Len(s) - 1) - 1 + 1 : Front(s)[i] = s[1 + i - 1]
    BY <1>3, SubSeqProperties DEF Front
<1>5. Len(Front(s)) = Len(s) - 1 /\ (Len(s) - 1) - 1 + 1 = Len(s) - 1
    <2>1. \A n \in Nat \ {0} : /\ (IF 1 <= n - 1 THEN (n - 1) - 1 + 1 ELSE 0) = n - 1
                              /\ (n - 1) - 1 + 1 = n - 1
        OBVIOUS
    <2> QED
        BY <1>1, <1>4, <2>1
<1>6. ASSUME NEW i \in 1 .. Len(s) - 1 PROVE Front(s)[i] = s[i]
    <2>1. 1 + i - 1 = i
        OBVIOUS
    <2> QED
        BY <1>4, <1>5, <2>1
<1> QED
    BY <1>1, <1>2, <1>4, <1>5, <1>6 DEF Last

\* The stack s with the process q for its top.
LEMMA WithTop ==
    ASSUME NEW s \in Stack, NEW q \in Process
    PROVE  /\ Append(Front(s), q) \in Stack
           /\ Len(Append(Front(s), q)) = Len(s)
           /\ Last(Append(Front(s), q)) = q
           /\ Append(Front(s), q)[Len(s)] = q
           /\ Front(Append(Front(s), q)) = Front(s)
           /\ \A i \in 1 .. Len(s) - 1 : Append(Front(s), q)[i] = s[i]
<1> DEFINE r == Append(Front(s), q)
<1>1. /\ Len(s) \in Nat \ {0} /\ Front(s) \in Seq(Process) /\ Len(Front(s)) = Len(s) - 1
      /\ \A i \in 1 .. Len(s) - 1 : Front(s)[i] = s[i]
    BY TopOf
<1>2. /\ r \in Seq(Process) /\ r # <<>> /\ Len(r) = Len(Front(s)) + 1
      /\ \A i \in 1 .. Len(Front(s)) : r[i] = Front(s)[i]
      /\ r[Len(Front(s)) + 1] = q
    BY <1>1, AppendProperties
<1>3. (Len(s) - 1) + 1 = Len(s)
    BY <1>1
<1> HIDE DEF r
<1>4. r \in Stack /\ Len(r) = Len(s) /\ Last(r) = q /\ r[Len(s)] = q
      /\ \A i \in 1 .. Len(s) - 1 : r[i] = s[i]
    BY <1>1, <1>2, <1>3 DEF Stack, Last
<1>5. Front(r) = Front(s)
    <2>1. /\ Front(r) \in Seq(Process) /\ Len(Front(r)) = Len(s) - 1
          /\ \A i \in 1 .. Len(s) - 1 : Front(r)[i] = r[i]
        BY <1>4, TopOf
    <2> QED
        BY <1>1, <1>4, <2>1, SeqEqual
<1> QED
    BY <1>4, <1>5 DEF r

\* A process with another place, line or argument is a process.
LEMMA EditPlace ==
    ASSUME NEW p \in Process, NEW pc \in PC
    PROVE  LET q == [p EXCEPT !.pc = pc]
           IN q \in Process /\ q.name = p.name /\ q.pc = pc
<1> DEFINE q == [p EXCEPT !.pc = pc]
<1>1. q = [name |-> p.name, pc |-> pc, buf |-> p.buf, arg |-> p.arg]
    BY DEF Process
<1> HIDE DEF q
<1>2. q \in Process /\ q.name = p.name /\ q.pc = pc
    BY <1>1 DEF Process
<1> QED
    BY <1>2 DEF q

\* A shell that reads a line stays a process, with its name.
LEMMA EditLine ==
    ASSUME NEW p \in Process, NEW pc \in PC, NEW line \in Seq(Char)
    PROVE  LET q == [p EXCEPT !.pc = pc, !.buf = line]
           IN q \in Process /\ q.name = p.name /\ q.pc = pc
<1> DEFINE q1 == [p EXCEPT !.pc = pc]
           q2 == [q1 EXCEPT !.buf = line]
<1>1. q1 = [name |-> p.name, pc |-> pc, buf |-> p.buf, arg |-> p.arg]
    BY DEF Process
<1> HIDE DEF q1
<1>2. q2 = [name |-> p.name, pc |-> pc, buf |-> line, arg |-> p.arg]
    BY <1>1
<1> HIDE DEF q2
<1>3. q2 \in Process /\ q2.name = p.name /\ q2.pc = pc
    BY <1>2 DEF Process
<1> QED
    BY <1>3 DEF q1, q2

\* A shell that goes back to its prompt stays a process, with its name.
LEMMA PromptProcess ==
    ASSUME NEW p \in Process
    PROVE  Prompt(p) \in Process /\ Prompt(p).name = p.name /\ Prompt(p).pc = "prompt"
<1> DEFINE q1 == [p EXCEPT !.pc = "prompt"]
           q2 == [q1 EXCEPT !.buf = <<>>]
<1>1. Prompt(p) = [q2 EXCEPT !.arg = <<>>]
    BY DEF Prompt
<1>2. q1 = [name |-> p.name, pc |-> "prompt", buf |-> p.buf, arg |-> p.arg]
    BY DEF Process
<1> HIDE DEF q1
<1>3. q2 = [name |-> p.name, pc |-> "prompt", buf |-> <<>>, arg |-> p.arg]
    BY <1>2
<1> HIDE DEF q2
<1>4. Prompt(p) = [name |-> p.name, pc |-> "prompt", buf |-> <<>>, arg |-> <<>>]
    BY <1>1, <1>3
<1>5. "prompt" \in PC /\ <<>> \in Seq(Char)
    BY DEF PC
<1> QED
    BY <1>4, <1>5 DEF Process

\* What execute starts is a process.
LEMMA StartedProcess ==
    ASSUME NEW name \in DOMAIN Kind
    PROVE  /\ Started(name) \in Process /\ Started(name).name = name
           /\ Started(name).pc = IF name = SHELL THEN "prompt" ELSE "run"
<1>1. {"prompt", "run"} \subseteq PC /\ <<>> \in Seq(Char)
    BY DEF PC
<1> QED
    BY <1>1 DEF Started, Process

\* A base shell, started or awaited, is a process with the shell's name.
LEMMA BaseProcess ==
    /\ Started(SHELL) \in Process /\ Started(SHELL).name = SHELL
    /\ Started(SHELL).pc = "prompt"
    /\ Awaited \in Process /\ Awaited.name = SHELL /\ Awaited.pc = "launch"
<1>1. /\ Started(SHELL) \in Process /\ Started(SHELL).name = SHELL
      /\ Started(SHELL).pc = "prompt"
    BY ShellAssumption, StartedProcess
<1>2. "launch" \in PC
    BY DEF PC
<1>3. Awaited \in Process /\ Awaited.name = Started(SHELL).name /\ Awaited.pc = "launch"
    BY <1>1, <1>2, EditPlace DEF Awaited
<1> QED
    BY <1>1, <1>3

\* The steps of a stack.  Other terminals keep theirs.
Elsewhere(t) == \A u \in Terminals \ {t} : stack'[u] = stack[u]

\* The top process goes on, q is what it is now.
Replaced(t, q) ==
    /\ q \in Process /\ q.name = Top(t).name /\ (q.pc = "run" => Top(t).pc = "run")
    /\ stack' \in [Terminals -> Stack] /\ Elsewhere(t)
    /\ Len(stack'[t]) = Len(stack[t]) /\ Top(t)' = q /\ Front(stack'[t]) = Front(stack[t])
    /\ \A i \in 1 .. Len(stack[t]) - 1 : stack'[t][i] = stack[t][i]

\* It ends, and the process below it, now q, goes on.
Popped(t, q) ==
    /\ ~IsBase(t)
    /\ q \in Process /\ q.name = Caller(t).name /\ q.pc # "run"
    /\ stack' \in [Terminals -> Stack] /\ Elsewhere(t)
    /\ Len(stack'[t]) = Len(stack[t]) - 1 /\ Top(t)' = q
    /\ \A i \in 1 .. Len(stack[t]) - 2 : stack'[t][i] = stack[t][i]

\* It, now q, starts the process r.
Pushed(t, q, r) ==
    /\ q \in Process /\ r \in Process /\ q.name = Top(t).name /\ q.pc # "run"
    /\ stack' \in [Terminals -> Stack] /\ Elsewhere(t)
    /\ Len(stack'[t]) = Len(stack[t]) + 1 /\ Top(t)' = r /\ stack'[t][Len(stack[t])] = q
    /\ \A i \in 1 .. Len(stack[t]) - 1 : stack'[t][i] = stack[t][i]

\* The terminal has nothing but a base shell, started or awaited.
Based(t, q) ==
    /\ stack' \in [Terminals -> Stack] /\ Elsewhere(t)
    /\ q \in Process /\ q.name = SHELL /\ q.pc # "run"
    /\ stack'[t] = <<q>> /\ Top(t)' = q

\* SetTop changes only the process on top of one stack.
LEMMA SetTopReplaces ==
    ASSUME Stacked, NEW t \in Terminals, NEW q \in Process, q.name = Top(t).name,
           q.pc = "run" => Top(t).pc = "run", stack' = SetTop(t, q)
    PROVE  Replaced(t, q)
<1>1. stack \in [Terminals -> Stack] /\ stack[t] \in Stack
    BY DEF Stacked, Stack
<1> DEFINE r == Append(Front(stack[t]), q)
<1>2. /\ r \in Stack /\ Len(r) = Len(stack[t]) /\ Last(r) = q /\ Front(r) = Front(stack[t])
      /\ \A i \in 1 .. Len(stack[t]) - 1 : r[i] = stack[t][i]
    BY <1>1, WithTop
<1>3. stack' = [stack EXCEPT ![t] = r]
    BY DEF SetTop
<1> HIDE DEF r
<1>4. stack' \in [Terminals -> Stack] /\ stack'[t] = r /\ Elsewhere(t)
    BY <1>1, <1>2, <1>3 DEF Elsewhere
<1> QED
    BY <1>2, <1>4 DEF Replaced, Top

\* PopTo removes the program on top and changes only its caller.
LEMMA PopToPops ==
    ASSUME Stacked, NEW t \in Terminals, ~IsBase(t), NEW q \in Process,
           q.name = Caller(t).name, q.pc # "run", stack' = PopTo(t, q)
    PROVE  Popped(t, q)
<1>1. stack \in [Terminals -> Stack] /\ stack[t] \in Stack
    BY DEF Stacked, Stack
<1> DEFINE s == Front(stack[t])
           r == Append(Front(s), q)
<1>2. /\ Len(stack[t]) \in Nat \ {0, 1}
      /\ s \in Seq(Process) /\ Len(s) = Len(stack[t]) - 1
      /\ \A i \in 1 .. Len(stack[t]) - 1 : s[i] = stack[t][i]
    BY <1>1, TopOf DEF IsBase
<1>3. stack' = [stack EXCEPT ![t] = r]
    BY DEF PopTo
<1> HIDE DEF s
<1>4. s \in Stack
    <2>1. Len(<<>>) = 0 /\ Len(s) # 0
        BY <1>2
    <2> QED
        BY <1>2, <2>1 DEF Stack
<1>5. /\ r \in Stack /\ Len(r) = Len(s) /\ Last(r) = q
      /\ \A i \in 1 .. Len(s) - 1 : r[i] = s[i]
    BY <1>4, WithTop
<1> HIDE DEF r
<1>6. stack' \in [Terminals -> Stack] /\ stack'[t] = r /\ Elsewhere(t)
    BY <1>1, <1>3, <1>5 DEF Elsewhere
<1>7. \A i \in 1 .. Len(stack[t]) - 2 : r[i] = stack[t][i]
    <2> SUFFICES ASSUME NEW i \in 1 .. Len(stack[t]) - 2 PROVE r[i] = stack[t][i]
        OBVIOUS
    <2>1. i \in 1 .. Len(s) - 1 /\ i \in 1 .. Len(stack[t]) - 1
        BY <1>2
    <2> QED
        BY <1>2, <1>5, <2>1
<1> QED
    BY <1>2, <1>5, <1>6, <1>7 DEF Popped, Top

\* A base shell that ends is replaced.
LEMMA RestartBases ==
    ASSUME Stacked, NEW t \in Terminals, NEW q \in Process, q.name = SHELL, q.pc # "run",
           stack' = [stack EXCEPT ![t] = <<q>>]
    PROVE  Based(t, q)
<1>1. stack \in [Terminals -> Stack]
    BY DEF Stacked, Stack
<1>2. <<q>> \in Stack /\ Last(<<q>>) = q
    BY DEF Stack, Last
<1>3. stack' \in [Terminals -> Stack] /\ stack'[t] = <<q>> /\ Elsewhere(t)
    BY <1>1, <1>2 DEF Elsewhere
<1> QED
    BY <1>2, <1>3 DEF Based, Top

-----------------------------------------------------------------------------
(* Every program is that of its command *)

\* A stack whose processes were started as their commands say.
ByCommand(s) ==
    /\ s[1].name = SHELL
    /\ \A k \in 1 .. Len(s) : s[k].pc = "run" => s[k].name # SHELL
    /\ \A k \in 2 .. Len(s) :
          /\ Reads(s[k - 1].buf, s[k].name, s[k - 1].arg)
          /\ Len(s[k - 1].arg) < MAX_ARG_LEN
          /\ Kind[s[k].name] # "other"
Sound == \A t \in Terminals : stack[t] \in Stack /\ ByCommand(stack[t])

\* The types.
Typed ==
    /\ stack \in [Terminals -> Stack]
    /\ global_halt \in BOOLEAN /\ stale \in BOOLEAN
    /\ message \in [Terminals -> Messages]
    /\ got \in [Terminals -> [ret : {-1, 0}, buf : Seq(Char)]]
    /\ end \in [Terminals -> Ends]

\* Sound implies the property, and the shape of the stacks.
LEMMA SoundMeans ==
    /\ Sound => RunsCommand
    /\ Typed /\ Sound => Stacked
<1>1. Sound => RunsCommand
    BY DEF Sound, ByCommand, RunsCommand, Child
<1>2. ASSUME Typed, Sound PROVE Stacked
    <2>1. \A t \in Terminals : Head(stack[t]) = stack[t][1] /\ DOMAIN stack[t] = 1 .. Len(stack[t])
        <3> SUFFICES ASSUME NEW t \in Terminals
                     PROVE  Head(stack[t]) = stack[t][1] /\ DOMAIN stack[t] = 1 .. Len(stack[t])
            OBVIOUS
        <3>1. stack[t] \in Stack /\ stack[t] \in Seq(Process)
            BY <1>2 DEF Sound, Stack
        <3> QED
            BY <3>1, TopOf, LenProperties
    <2> QED
        BY <1>2, <2>1 DEF Sound, ByCommand, Stacked, Typed, Stack
<1> QED
    BY <1>1, <1>2

\* The top of terminal t's stack, and the process below it.
LEMMA TopAndCaller ==
    ASSUME Sound, NEW t \in Terminals
    PROVE  LET n == Len(stack[t])
           IN /\ stack[t] \in Stack /\ ByCommand(stack[t])
              /\ n \in Nat \ {0} /\ Top(t) = stack[t][n] /\ Top(t) \in Process
              /\ IsBase(t) <=> n = 1
              /\ ~IsBase(t) => Caller(t) = stack[t][n - 1] /\ Caller(t) \in Process
<1> DEFINE n == Len(stack[t])
<1>1. stack[t] \in Stack /\ stack[t] \in Seq(Process) /\ ByCommand(stack[t])
    BY DEF Sound, Stack
<1>2. /\ n \in Nat \ {0} /\ Last(stack[t]) \in Process /\ Len(Front(stack[t])) = n - 1
      /\ \A i \in 1 .. n - 1 : Front(stack[t])[i] = stack[t][i]
    BY <1>1, TopOf
<1>3. ASSUME n # 1 PROVE Caller(t) = stack[t][n - 1] /\ Caller(t) \in Process
    <2>1. n - 1 \in 1 .. n - 1 /\ n - 1 \in 1 .. n
        <3>1. n \in Nat /\ n # 0 /\ n # 1
            BY <1>2, <1>3
        <3> HIDE DEF n
        <3> QED
            BY <3>1
    <2>2. stack[t][n - 1] \in Process
        BY <1>1, <2>1, ElementOfSeq
    <2> QED
        BY <1>2, <2>1, <2>2 DEF Caller, Last
<1> QED
    BY <1>1, <1>2, <1>3 DEF Top, Last, IsBase

\* Steps that leave one stack in order and the others alone.
LEMMA OneStack ==
    ASSUME Sound, NEW t \in Terminals, stack' \in [Terminals -> Stack], Elsewhere(t),
           ByCommand(stack'[t])
    PROVE  Sound'
<1>1. \A u \in Terminals : ByCommand(stack'[u])
    BY DEF Sound, Elsewhere
<1>2. ASSUME NEW u \in Terminals PROVE ByCommand(stack[u])'
    BY <1>1 DEF ByCommand
<1> QED
    BY <1>2 DEF Sound

\* Sound survives a change of the process on top, if it does not begin to run.
LEMMA ReplacedSound ==
    ASSUME Sound, NEW t \in Terminals, NEW q, Replaced(t, q)
    PROVE  Sound'
<1> DEFINE n == Len(stack[t])
           s == stack[t]
           r == stack'[t]
<1>1. /\ ByCommand(s) /\ n \in Nat \ {0} /\ Top(t) = s[n]
      /\ r \in Stack /\ Len(r) = n /\ r[n] = q
      /\ \A i \in 1 .. n - 1 : r[i] = s[i]
      /\ q.name = s[n].name /\ (q.pc = "run" => s[n].pc = "run")
    BY TopAndCaller DEF Replaced, Top, Last
<1> HIDE DEF s, r, n
<1>2. \A k \in 1 .. n : r[k].name = s[k].name /\ (r[k].pc = "run" => s[k].pc = "run")
    <2> SUFFICES ASSUME NEW k \in 1 .. n
                 PROVE  r[k].name = s[k].name /\ (r[k].pc = "run" => s[k].pc = "run")
        OBVIOUS
    <2>1. k = n \/ k \in 1 .. n - 1
        BY <1>1
    <2> QED
        BY <1>1, <2>1
<1>3. \A k \in 2 .. n : k - 1 \in 1 .. n - 1 /\ k \in 1 .. n
    BY <1>1
<1>4. ByCommand(r)
    <2>1. 1 \in 1 .. n /\ Len(s) = n
        BY <1>1 DEF n, s
    <2> QED
        BY <1>1, <1>2, <1>3, <2>1 DEF ByCommand
<1> QED
    BY <1>4, OneStack DEF Replaced, r

\* Sound survives the end of a program.
LEMMA PoppedSound ==
    ASSUME Sound, NEW t \in Terminals, NEW q, Popped(t, q)
    PROVE  Sound'
<1> DEFINE n == Len(stack[t])
           s == stack[t]
           r == stack'[t]
<1>0. ~IsBase(t) /\ n \in Nat /\ n # 0 /\ n # 1
    BY TopAndCaller DEF Popped
<1>1. /\ ByCommand(s) /\ n \in Nat /\ n > 1 /\ Caller(t) = s[n - 1] /\ Len(s) = n
      /\ r \in Stack /\ Len(r) = n - 1 /\ r[n - 1] = q
      /\ \A i \in 1 .. n - 2 : r[i] = s[i]
      /\ q.name = s[n - 1].name /\ q.pc # "run"
    <2>1. n > 1
        <3> HIDE DEF n
        <3> QED
            BY <1>0
    <2>2. ByCommand(s) /\ Caller(t) = s[n - 1]
        BY <1>0, TopAndCaller
    <2>3. /\ r \in Stack /\ Len(r) = n - 1 /\ r[n - 1] = q
          /\ \A i \in 1 .. n - 2 : r[i] = s[i]
          /\ q.name = Caller(t).name /\ q.pc # "run"
        BY DEF Popped, Top, Last
    <2> HIDE DEF r
    <2> QED
        BY <1>0, <2>1, <2>2, <2>3
<1> HIDE DEF s, r, n
<1>2. \A k \in 1 .. n - 1 : r[k].name = s[k].name /\ (r[k].pc = "run" => s[k].pc = "run")
    <2> SUFFICES ASSUME NEW k \in 1 .. n - 1
                 PROVE  r[k].name = s[k].name /\ (r[k].pc = "run" => s[k].pc = "run")
        OBVIOUS
    <2>1. k = n - 1 \/ k \in 1 .. n - 2
        BY <1>1
    <2> QED
        BY <1>1, <2>1
<1>3. \A k \in 2 .. n - 1 : k - 1 \in 1 .. n - 2 /\ k \in 1 .. n - 1 /\ k \in 2 .. n
    BY <1>1
<1>4. ByCommand(r)
    <2>1. 1 \in 1 .. n - 1 /\ 1 .. n - 1 \subseteq 1 .. n
        BY <1>1
    <2> QED
        BY <1>1, <1>2, <1>3, <2>1 DEF ByCommand
<1> QED
    BY <1>4, OneStack DEF Popped, r

\* Sound survives an execute whose frame holds the name and the argument.
LEMMA PushedSound ==
    ASSUME Sound, NEW t \in Terminals, NEW q, NEW p, Pushed(t, q, p),
           p.pc = "run" => p.name # SHELL,
           Reads(q.buf, p.name, q.arg), Len(q.arg) < MAX_ARG_LEN, Kind[p.name] # "other"
    PROVE  Sound'
<1> DEFINE n == Len(stack[t])
           s == stack[t]
           r == stack'[t]
<1>1. /\ ByCommand(s) /\ n \in Nat \ {0} /\ Top(t) = s[n] /\ Len(s) = n
      /\ r \in Stack /\ Len(r) = n + 1 /\ r[n + 1] = p /\ r[n] = q
      /\ \A i \in 1 .. n - 1 : r[i] = s[i]
      /\ q.name = s[n].name /\ q.pc # "run"
    BY TopAndCaller DEF Pushed, Top, Last
<1> HIDE DEF s, r, n
<1>2. \A k \in 1 .. n : r[k].name = s[k].name /\ (r[k].pc = "run" => s[k].pc = "run")
    <2> SUFFICES ASSUME NEW k \in 1 .. n
                 PROVE  r[k].name = s[k].name /\ (r[k].pc = "run" => s[k].pc = "run")
        OBVIOUS
    <2>1. k = n \/ k \in 1 .. n - 1
        BY <1>1
    <2> QED
        BY <1>1, <2>1
<1>3. r[1].name = SHELL
    <2>1. 1 \in 1 .. n
        BY <1>1
    <2> QED
        BY <1>1, <1>2, <2>1 DEF ByCommand
<1>4. ASSUME NEW k \in 1 .. n + 1 PROVE r[k].pc = "run" => r[k].name # SHELL
    <2>1. k = n + 1 \/ k \in 1 .. n
        BY <1>1
    <2> QED
        BY <1>1, <1>2, <2>1 DEF ByCommand
<1>5. ASSUME NEW k \in 2 .. n + 1
      PROVE  /\ Reads(r[k - 1].buf, r[k].name, r[k - 1].arg)
             /\ Len(r[k - 1].arg) < MAX_ARG_LEN
             /\ Kind[r[k].name] # "other"
    <2>1. CASE k = n + 1
        <3>1. k - 1 = n
            BY <1>1, <2>1
        <3> QED
            BY <1>1, <2>1, <3>1
    <2>2. CASE k # n + 1
        <3>1. k \in 2 .. n /\ k \in 1 .. n /\ k - 1 \in 1 .. n - 1
            BY <1>1, <2>2
        <3> QED
            BY <1>1, <1>2, <3>1 DEF ByCommand
    <2> QED
        BY <2>1, <2>2
<1>6. ByCommand(r)
    BY <1>1, <1>3, <1>4, <1>5 DEF ByCommand
<1> QED
    BY <1>6, OneStack DEF Pushed, r

\* Sound survives the end and the restart of a base shell.
LEMMA BasedSound ==
    ASSUME Sound, NEW t \in Terminals, NEW q, Based(t, q)
    PROVE  Sound'
<1>1. q.name = SHELL /\ q.pc # "run"
    BY DEF Based
<1>2. Len(<<q>>) = 1 /\ <<q>>[1] = q /\ 2 .. 1 = {}
    OBVIOUS
<1>3. ByCommand(<<q>>)
    BY <1>1, <1>2 DEF ByCommand
<1> QED
    BY <1>3, OneStack DEF Based

\* What the actions do, in these terms: the top process goes to another place,
\* returns to its caller's, or starts the program of its command.
Goes(t, pc) == \E q : Replaced(t, q) /\ q.pc = pc
Returns(t, pc) == \E q : Popped(t, q) /\ q.pc = pc
Restarts(t, pc) == \E q : Based(t, q) /\ q.pc = pc
Starts(t) ==
    \E q, p : /\ Pushed(t, q, p)
              /\ p.pc \in {"prompt", "run"} /\ (p.pc = "run" => p.name # SHELL)
              /\ Reads(q.buf, p.name, q.arg) /\ Len(q.arg) < MAX_ARG_LEN
              /\ p.name \in DOMAIN Kind /\ Kind[p.name] # "other"

\* A move of the program counter replaces the top.
LEMMA GotoGoes ==
    ASSUME Typed, Sound, NEW t \in Terminals, NEW pc \in PC, pc # "run", stack' = Goto(t, pc)
    PROVE  Goes(t, pc)
<1> DEFINE q == [Top(t) EXCEPT !.pc = pc]
<1>1. Top(t) \in Process /\ Stacked
    BY TopAndCaller, SoundMeans
<1>2. q \in Process /\ q.name = Top(t).name /\ q.pc = pc
    BY <1>1, EditPlace
<1>3. stack' = SetTop(t, q)
    BY DEF Goto
<1> HIDE DEF q
<1>4. Replaced(t, q)
    BY <1>1, <1>2, <1>3, SetTopReplaces
<1> QED
    BY <1>2, <1>4 DEF Goes

\* So does the return to the prompt.
LEMMA PromptGoes ==
    ASSUME Typed, Sound, NEW t \in Terminals, stack' = SetTop(t, Prompt(Top(t)))
    PROVE  Goes(t, "prompt")
<1> DEFINE q == Prompt(Top(t))
<1>1. Top(t) \in Process /\ Stacked
    BY TopAndCaller, SoundMeans
<1>2. q \in Process /\ q.name = Top(t).name /\ q.pc = "prompt"
    BY <1>1, PromptProcess
<1> HIDE DEF q
<1>3. Replaced(t, q)
    BY <1>1, <1>2, SetTopReplaces DEF q
<1> QED
    BY <1>2, <1>3 DEF Goes

\* So does reading a line.
LEMMA ReadLineGoes ==
    ASSUME Typed, Sound, NEW t \in Terminals, ReadLine(t)
    PROVE  Goes(t, "line")
<1>1. PICK line \in Lines[t] : stack' = SetTop(t, [Top(t) EXCEPT !.pc = "line", !.buf = line])
    BY DEF ReadLine
<1> DEFINE q == [Top(t) EXCEPT !.pc = "line", !.buf = line]
<1>2. Top(t) \in Process /\ Stacked /\ line \in Seq(Char) /\ "line" \in PC
    BY TopAndCaller, SoundMeans, ShellAssumption DEF PC
<1>3. q \in Process /\ q.name = Top(t).name /\ q.pc = "line"
    BY <1>2, EditLine
<1> HIDE DEF q
<1>4. Replaced(t, q)
    BY <1>1, <1>2, <1>3, SetTopReplaces DEF q
<1> QED
    BY <1>3, <1>4 DEF Goes

\* What execute has found is a name of the directory that is not that of another
\* file.
LEMMA Found ==
    ASSUME NEW name, TRUE \in read_dentry_by_name(name), TRUE \in isExe(name)
    PROVE  name \in DOMAIN Kind /\ Kind[name] # "other"
<1>1. name \in DOMAIN Kind
    BY DEF read_dentry_by_name
<1>2. Kind[name] \in Kinds
    BY <1>1, ShellAssumption
<1> QED
    BY <1>1, <1>2 DEF isExe, Kinds

\* What Execute does: a new process on top, whose caller keeps the line and
\* the argument.
LEMMA ExecuteStarts ==
    ASSUME Typed, Sound, NEW t \in Terminals, Execute(t)
    PROVE  Starts(t)
<1> DEFINE c == parse(Top(t).buf)
           q == [Top(t) EXCEPT !.pc = "wait", !.arg = c.arg]
           p == Started(c.filename)
           s == stack[t]
           w == Append(Front(s), q)
           r == Append(w, p)
<1>1. /\ c.ok /\ TRUE \in read_dentry_by_name(c.filename) /\ TRUE \in isExe(c.filename)
      /\ stack' = [stack EXCEPT ![t] = Append(SetTop(t, q)[t], p)]
    BY DEF Execute
<1>2. /\ s \in Stack /\ Top(t) \in Process /\ Len(s) \in Nat \ {0}
      /\ stack \in [Terminals -> Stack] /\ Top(t).buf \in Seq(Char)
    BY TopAndCaller DEF Typed, Process
<1>3. /\ c.arg \in Seq(Char) /\ Reads(Top(t).buf, c.filename, c.arg)
      /\ Len(c.arg) < MAX_ARG_LEN
    BY <1>1, <1>2, ParseReads
<1>4. c.filename \in DOMAIN Kind /\ Kind[c.filename] # "other"
    BY <1>1, Found
<1> HIDE DEF c
<1>5. /\ q \in Process /\ q.name = Top(t).name /\ q.pc = "wait" /\ q.arg = c.arg
      /\ q.buf = Top(t).buf
    <2>1. Top(t) \in Process /\ c.arg \in Seq(Char)
        BY <1>2, <1>3
    <2> DEFINE top == Top(t)
               q1 == [top EXCEPT !.pc = "wait"]
    <2>2. q = [q1 EXCEPT !.arg = c.arg]
        OBVIOUS
    <2> HIDE DEF q, top
    <2>3. q1 = [name |-> top.name, pc |-> "wait", buf |-> top.buf, arg |-> top.arg]
        BY <2>1 DEF Process, top
    <2> HIDE DEF q1
    <2>4. q = [name |-> top.name, pc |-> "wait", buf |-> top.buf, arg |-> c.arg]
        BY <2>2, <2>3
    <2>5. "wait" \in PC
        BY DEF PC
    <2> QED
        BY <2>1, <2>4, <2>5 DEF Process, top
<1>6. /\ p \in Process /\ p.name = c.filename /\ p.pc = IF c.filename = SHELL THEN "prompt" ELSE "run"
    BY <1>4, StartedProcess
<1>7. SetTop(t, q)[t] = w
    BY <1>2 DEF SetTop
<1> HIDE DEF q, p, s
<1>8. /\ w \in Stack /\ Len(w) = Len(s) /\ w[Len(s)] = q
      /\ \A i \in 1 .. Len(s) - 1 : w[i] = s[i]
    BY <1>2, <1>5, WithTop
<1> HIDE DEF w
<1>9. /\ r \in Seq(Process) /\ r # <<>> /\ Len(r) = Len(w) + 1
      /\ \A i \in 1 .. Len(w) : r[i] = w[i]
      /\ r[Len(w) + 1] = p
    BY <1>6, <1>8, AppendProperties DEF Stack
<1> HIDE DEF r
<1>10. /\ r \in Stack /\ Len(r) = Len(s) + 1 /\ Last(r) = p /\ r[Len(s)] = q
       /\ \A i \in 1 .. Len(s) - 1 : r[i] = s[i]
    <2>1. Len(s) \in 1 .. Len(s) /\ 1 .. Len(s) - 1 \subseteq 1 .. Len(s)
        BY <1>2
    <2> QED
        BY <1>8, <1>9, <2>1 DEF Stack, Last
<1>11. stack' \in [Terminals -> Stack] /\ stack'[t] = r /\ Elsewhere(t)
    BY <1>1, <1>2, <1>7, <1>10 DEF Elsewhere, r
<1>12. Pushed(t, q, p)
    BY <1>5, <1>6, <1>10, <1>11 DEF Pushed, Top, s
<1> QED
    BY <1>3, <1>4, <1>5, <1>6, <1>12 DEF Starts

\* halt returns into the execute of the caller.
LEMMA HaltPopReturns ==
    ASSUME Typed, Sound, NEW t \in Terminals, HaltPop(t)
    PROVE  Returns(t, "test")
<1> DEFINE q == [Caller(t) EXCEPT !.pc = "test"]
<1>1. ~IsBase(t) /\ Caller(t) \in Process /\ Stacked /\ "test" \in PC
    BY TopAndCaller, SoundMeans DEF HaltPop, PC, Ending
<1>2. q \in Process /\ q.name = Caller(t).name /\ q.pc = "test"
    BY <1>1, EditPlace
<1>3. stack' = PopTo(t, q)
    BY DEF HaltPop
<1> HIDE DEF q
<1>4. Popped(t, q)
    BY <1>1, <1>2, <1>3, PopToPops
<1> QED
    BY <1>2, <1>4 DEF Returns

\* Ctrl-C on a program ends it, and its caller goes on.
LEMMA CtrlCReturns ==
    ASSUME Typed, Sound, NEW t \in Terminals, CtrlCChild(t)
    PROVE  Returns(t, "prompt")
<1> DEFINE q == Prompt(Caller(t))
<1>1. ~IsBase(t) /\ Caller(t) \in Process /\ Stacked
    BY TopAndCaller, SoundMeans DEF CtrlCChild
<1>2. q \in Process /\ q.name = Caller(t).name /\ q.pc = "prompt"
    BY <1>1, PromptProcess
<1>3. stack' = PopTo(t, q)
    BY DEF CtrlCChild
<1> HIDE DEF q
<1>4. Popped(t, q)
    BY <1>1, <1>2, <1>3, PopToPops
<1> QED
    BY <1>2, <1>4 DEF Returns

\* A program ends by halt, with any status.
Halting(t) == \E how \in Halts : halt(t, how)

\* The actions, one by one.
LEMMA Steps ==
    ASSUME Typed, Sound, NEW t \in Terminals
    PROVE  /\ ReadLine(t) => Goes(t, "line")
           /\ Continue(t) => Goes(t, "prompt")
           /\ ExecuteFails(t) => Goes(t, "prompt")
           /\ Execute(t) => Starts(t)
           /\ Halting(t) => Goes(t, "halt")
           /\ Exception(t) => Goes(t, "halt")
           /\ Launch(t) => Restarts(t, "prompt")
           /\ HaltBase(t) => Restarts(t, "launch")
           /\ HaltPop(t) => Returns(t, "test")
           /\ TestHalt(t) /\ global_halt => Goes(t, "clear")
           /\ TestHalt(t) /\ ~global_halt => Goes(t, "prompt")
           /\ ClearHalt(t) => Goes(t, "prompt")
           /\ CtrlCBase(t) => Restarts(t, "prompt")
           /\ CtrlCChild(t) => Returns(t, "prompt")
<1>1. Stacked /\ {"halt", "clear"} \subseteq PC
    BY SoundMeans DEF PC, Ending
<1>2. ReadLine(t) => Goes(t, "line")
    BY ReadLineGoes
<1>3. /\ Continue(t) => Goes(t, "prompt")
      /\ ExecuteFails(t) => Goes(t, "prompt")
      /\ TestHalt(t) /\ ~global_halt => Goes(t, "prompt")
      /\ ClearHalt(t) => Goes(t, "prompt")
    BY PromptGoes DEF Continue, ExecuteFails, TestHalt, ClearHalt
<1>4. Execute(t) => Starts(t)
    BY ExecuteStarts
<1>5. /\ Halting(t) => Goes(t, "halt")
      /\ Exception(t) => Goes(t, "halt")
    BY <1>1, GotoGoes DEF Halting, halt, Exception
<1>6. TestHalt(t) /\ global_halt => Goes(t, "clear")
    <2>1. TestHalt(t) /\ global_halt => stack' = Goto(t, "clear")
        BY DEF TestHalt, Goto
    <2> QED
        BY <1>1, <2>1, GotoGoes
<1>7. /\ Launch(t) => Restarts(t, "prompt")
      /\ HaltBase(t) => Restarts(t, "launch")
      /\ CtrlCBase(t) => Restarts(t, "prompt")
    <2>1. /\ Launch(t) \/ CtrlCBase(t) => Based(t, Started(SHELL))
          /\ HaltBase(t) => Based(t, Awaited)
        BY <1>1, BaseProcess, RestartBases DEF Launch, HaltBase, CtrlCBase
    <2> QED
        BY <2>1, BaseProcess DEF Restarts
<1> QED
    BY <1>2, <1>3, <1>4, <1>5, <1>6, <1>7, HaltPopReturns, CtrlCReturns

\* What an action of terminal t may do to the stacks.
StackStep(t) ==
    \/ UNCHANGED stack
    \/ \E pc : Goes(t, pc) \/ Returns(t, pc) \/ Restarts(t, pc)
    \/ Starts(t)

\* Every action makes one of these changes to the stacks.
LEMMA ActionSteps ==
    ASSUME Typed, Sound, NEW t \in Terminals, Step(t)
    PROVE  StackStep(t)
<1>1. \A n \in Sizes : getargs(t, n) => UNCHANGED stack
    BY DEF getargs
<1> QED
    BY <1>1, Steps, Zenon DEF Step, StackStep, Halting

\* All of these changes keep Sound and leave the other terminals alone.
LEMMA StepSound ==
    ASSUME Sound, stack \in [Terminals -> Stack], NEW t \in Terminals, StackStep(t)
    PROVE  stack' \in [Terminals -> Stack] /\ Sound' /\ Elsewhere(t)
<1>1. CASE UNCHANGED stack
    <2>1. Elsewhere(t)
        BY <1>1 DEF Elsewhere
    <2>2. stack' \in [Terminals -> Stack]
        BY <1>1
    <2> QED
        BY <1>1, <2>1, <2>2 DEF Sound, ByCommand
<1>2. ASSUME NEW pc, Goes(t, pc)
      PROVE  stack' \in [Terminals -> Stack] /\ Sound' /\ Elsewhere(t)
    <2>1. PICK q : Replaced(t, q)
        BY <1>2 DEF Goes
    <2> QED
        BY <2>1, ReplacedSound DEF Replaced
<1>3. ASSUME NEW pc, Returns(t, pc)
      PROVE  stack' \in [Terminals -> Stack] /\ Sound' /\ Elsewhere(t)
    <2>1. PICK q : Popped(t, q)
        BY <1>3 DEF Returns
    <2> QED
        BY <2>1, PoppedSound DEF Popped
<1>4. CASE Starts(t)
    <2>1. PICK q, p : /\ Pushed(t, q, p) /\ (p.pc = "run" => p.name # SHELL)
                      /\ Reads(q.buf, p.name, q.arg) /\ Len(q.arg) < MAX_ARG_LEN
                      /\ Kind[p.name] # "other"
        BY <1>4 DEF Starts
    <2> QED
        BY <2>1, PushedSound DEF Pushed
<1>5. ASSUME NEW pc, Restarts(t, pc)
      PROVE  stack' \in [Terminals -> Stack] /\ Sound' /\ Elsewhere(t)
    <2>1. PICK q : Based(t, q)
        BY <1>5 DEF Restarts
    <2> QED
        BY <2>1, BasedSound DEF Based
<1> QED
    BY <1>1, <1>2, <1>3, <1>4, <1>5 DEF StackStep

\* What runs as a program has a caller.
LEMMA RunsAbove ==
    ASSUME Sound, NEW t \in Terminals, At(t, "run")
    PROVE  ~IsBase(t)
<1>1. /\ ByCommand(stack[t]) /\ Len(stack[t]) \in Nat \ {0} /\ Top(t) = stack[t][Len(stack[t])]
      /\ IsBase(t) <=> Len(stack[t]) = 1
    BY TopAndCaller
<1>2. 1 \in 1 .. 1
    OBVIOUS
<1> QED
    BY <1>1, <1>2 DEF At, ByCommand

\* What getargs hands out.
LEMMA GetargsGets ==
    ASSUME Typed, Sound, NEW t \in Terminals, NEW n \in Sizes, getargs(t, n)
    PROVE  \E g \in [ret : {-1, 0}, buf : Seq(Char)] :
              /\ got' = [got EXCEPT ![t] = g]
              /\ g.ret = 0 => g.buf # <<>> /\ g.buf = Caller(t).arg
<1> DEFINE a == Caller(t).arg
<1>1. At(t, "run") /\ ~IsBase(t)
    BY RunsAbove DEF getargs
<1>2. a \in Seq(Char) /\ n \in Int
    BY <1>1, TopAndCaller, ShellAssumption DEF Process
<1> DEFINE bad == [ret |-> -1, buf |-> <<>>]
           cut == [ret |-> -1, buf |-> SubSeq(a, 1, n)]
           good == [ret |-> 0, buf |-> a]
           g == CASE n <= 0 \/ a = <<>> -> bad [] n \in 1 .. Len(a) -> cut [] OTHER -> good
<1>3. got' = [got EXCEPT ![t] = g]
    BY DEF getargs, Argument, Answer
<1> HIDE DEF a
<1>4. Len(a) \in Nat /\ <<>> \in Seq(Char) /\ (a = <<>> => Len(a) = 0)
    BY <1>2
<1>5. CASE n <= 0 \/ a = <<>>
    <2>1. n \notin 1 .. Len(a)
        BY <1>2, <1>4, <1>5
    <2>2. g = bad
        BY <1>5, <2>1
    <2>3. bad \in [ret : {-1, 0}, buf : Seq(Char)] /\ bad.ret # 0
        BY <1>4
    <2> HIDE DEF g, bad
    <2> QED
        BY <1>3, <2>2, <2>3
<1>6. CASE ~(n <= 0 \/ a = <<>>) /\ n \in 1 .. Len(a)
    <2>1. g = cut
        BY <1>6
    <2>2. SubSeq(a, 1, n) \in Seq(Char)
        <3>1. n + 1 \in 1 .. Len(a) + 1 /\ 1 \in 1 .. Len(a) + 1 /\ (n + 1) - 1 = n
            BY <1>2, <1>4, <1>6
        <3> QED
            BY <1>2, <3>1, PartOfLine
    <2>3. cut \in [ret : {-1, 0}, buf : Seq(Char)] /\ cut.ret # 0
        BY <2>2
    <2> HIDE DEF g, cut
    <2> QED
        BY <1>3, <2>1, <2>3
<1>7. CASE ~(n <= 0 \/ a = <<>>) /\ n \notin 1 .. Len(a)
    <2>1. g = good
        BY <1>7
    <2>2. good \in [ret : {-1, 0}, buf : Seq(Char)] /\ good.buf = a /\ a # <<>>
        BY <1>2, <1>7
    <2> HIDE DEF g, good
    <2> QED
        BY <1>3, <2>1, <2>2 DEF a
<1> QED
    BY <1>5, <1>6, <1>7

-----------------------------------------------------------------------------
(* The types, and the argument that getargs handed out *)

Got == [ret : {-1, 0}, buf : Seq(Char)]

\* What a program holds before it asks for its argument is well typed.
LEMMA NothingType == NOTHING \in Got
BY DEF NOTHING, Got

\* EndOf, read terminal by terminal.
LEMMA EndOfIs ==
    ASSUME NEW t \in Terminals, NEW how, NEW u \in Terminals
    PROVE  EndOf(t, how)[u] = IF Clash(t, how) /\ (u \in Others(t) \/ u = t) THEN "unsure"
                              ELSE IF ~Clash(t, how) /\ u = t THEN how ELSE end[u]
<1> DEFINE clash == Clash(t, how)
           others == Others(t)
<1>1. EndOf(t, how)[u] = CASE clash /\ u \in others \cup {t} -> "unsure"
                           [] ~clash /\ u = t -> how
                           [] OTHER -> end[u]
    BY DEF EndOf
<1> HIDE DEF clash, others
<1>2. EndOf(t, how)[u] = IF clash /\ (u \in others \/ u = t) THEN "unsure"
                         ELSE IF ~clash /\ u = t THEN how ELSE end[u]
    BY <1>1
<1> QED
    BY <1>2 DEF clash, others

\* EndOf yields kinds of ends.
LEMMA EndOfType ==
    ASSUME Typed, NEW t \in Terminals, NEW how \in Ends
    PROVE  EndOf(t, how) \in [Terminals -> Ends]
<1>1. \A u \in Terminals : end[u] \in Ends
    BY DEF Typed
<1>2. \A u \in Terminals : EndOf(t, how)[u] \in Ends
    BY <1>1, EndOfIs DEF Ends
<1>3. \E f : EndOf(t, how) = [u \in Terminals |-> f[u]]
    <2>1. EndOf(t, how) = [u \in Terminals |-> EndOf(t, how)[u]]
        BY DEF EndOf
    <2> QED
        BY <2>1
<1> QED
    BY <1>2, <1>3

\* Every action keeps the types.
LEMMA TypedStep ==
    ASSUME Typed, Sound, NEW t \in Terminals, Step(t)
    PROVE  Typed'
<1> USE DEF Typed
<1>1. stack' \in [Terminals -> Stack]
    BY ActionSteps, StepSound
<1>2. global_halt' \in BOOLEAN /\ stale' \in BOOLEAN
    BY DEF Step, Launch, ReadLine, Continue, ExecuteFails, Execute, getargs, halt, Exception,
       HaltBase, HaltPop, TestHalt, ClearHalt, Cleared, CtrlCBase, CtrlCChild
<1>3. message' \in [Terminals -> Messages]
    BY DEF Step, Launch, ReadLine, Continue, ExecuteFails, Execute, getargs, halt, Exception,
       HaltBase, HaltPop, TestHalt, ClearHalt, CtrlCBase, CtrlCChild, Said, Returned, EXCEPTION_256, Messages
<1>4. got' \in [Terminals -> Got]
    <2>1. CASE \E n \in Sizes : getargs(t, n)
        BY <2>1, GetargsGets DEF Got
    <2>2. CASE got' = got \/ got' = [got EXCEPT ![t] = NOTHING]
        BY <2>2, NothingType DEF Got
    <2> QED
        BY <2>1, <2>2 DEF Step, Launch, ReadLine, Continue, ExecuteFails, Execute, halt, Exception,
           HaltBase, HaltPop, TestHalt, ClearHalt, CtrlCBase, CtrlCChild
<1>5. end' \in [Terminals -> Ends]
    <2>0. end \in [Terminals -> Ends] /\ Typed
        OBVIOUS
    <2>1. ASSUME NEW how \in Ends, end' = EndOf(t, how) \/ end' = [end EXCEPT ![t] = how]
          PROVE  end' \in [Terminals -> Ends]
        <3> HIDE DEF Typed
        <3>1. EndOf(t, how) \in [Terminals -> Ends]
            BY <2>0, EndOfType
        <3>2. [end EXCEPT ![t] = how] \in [Terminals -> Ends]
            BY <2>0
        <3> QED
            BY <2>1, <3>1, <3>2
    <2>2. CASE end' = end
        BY <2>2
    <2>3. /\ {"none", "failed", "ctrl-c", "exception", "unsure"} \subseteq Ends
          /\ Halts \subseteq Ends /\ end[t] \in Ends
        BY DEF Ends, Ordinary, Halts
    <2> HIDE DEF Typed
    <2>4. CASE ReadLine(t) \/ HaltBase(t) \/ CtrlCBase(t)
        BY <2>1, <2>3, <2>4 DEF ReadLine, HaltBase, CtrlCBase
    <2>5. CASE ExecuteFails(t)
        BY <2>1, <2>3, <2>5 DEF ExecuteFails
    <2>6. CASE Halting(t) \/ Exception(t)
        BY <2>1, <2>3, <2>6 DEF Halting, halt, Exception
    <2>7. CASE CtrlCChild(t)
        BY <2>1, <2>3, <2>7 DEF CtrlCChild
    <2>8. CASE \/ Launch(t) \/ Continue(t) \/ Execute(t) \/ HaltPop(t) \/ TestHalt(t)
               \/ ClearHalt(t) \/ \E n \in Sizes : getargs(t, n)
        BY <2>2, <2>8 DEF Launch, Continue, Execute, HaltPop, TestHalt, ClearHalt, getargs
    <2> QED
        BY <2>4, <2>5, <2>6, <2>7, <2>8 DEF Step, Halting
<1> QED
    BY <1>1, <1>2, <1>3, <1>4, <1>5 DEF Got

\* The terminals that a step leaves alone.
LEMMA SameElsewhere ==
    ASSUME NEW t, Elsewhere(t), NEW u \in Terminals \ {t}
    PROVE  /\ Top(u)' = Top(u) /\ IsBase(u)' = IsBase(u) /\ Caller(u)' = Caller(u)
           /\ IsEnding(u)' = IsEnding(u) /\ WillTest(u)' = WillTest(u)
           /\ \A pc : At(u, pc)' = At(u, pc)
BY DEF Elsewhere, Top, IsBase, Caller, IsEnding, WillTest, At

\* ArgumentKept, for one terminal.
KeptAt(t) ==
    got[t] # NOTHING =>
       /\ Top(t).pc \in {"run", "halt"} /\ ~IsBase(t)
       /\ got[t].ret = 0 => got[t].buf # <<>> /\ got[t].buf = Caller(t).arg

\* Every action keeps the argument that getargs is to return.
LEMMA KeptStep ==
    ASSUME Typed, Sound, ArgumentKept, NEW t \in Terminals, Step(t)
    PROVE  ArgumentKept'
<1>1. \A u \in Terminals : KeptAt(u)
    BY DEF ArgumentKept, KeptAt
<1>2. Elsewhere(t)
    BY ActionSteps, StepSound DEF Typed
<1>3. \A u \in Terminals \ {t} : got'[u] = got[u]
    <2>1. CASE \E n \in Sizes : getargs(t, n)
        BY <2>1 DEF getargs, Typed
    <2>2. CASE got' = got \/ got' = [got EXCEPT ![t] = NOTHING]
        BY <2>2 DEF Typed
    <2> QED
        BY <2>1, <2>2 DEF Step, Launch, ReadLine, Continue, ExecuteFails, Execute, halt, Exception,
           HaltBase, HaltPop, TestHalt, ClearHalt, CtrlCBase, CtrlCChild
<1>4. ASSUME NEW u \in Terminals \ {t} PROVE KeptAt(u)'
    BY <1>1, <1>2, <1>3, <1>4, SameElsewhere DEF KeptAt
<1>5. KeptAt(t)'
    <2>1. CASE got'[t] = NOTHING
        BY <2>1 DEF KeptAt
    <2>2. CASE Execute(t) \/ HaltPop(t) \/ CtrlCChild(t)
        BY <2>1, <2>2 DEF Execute, HaltPop, CtrlCChild, Typed
    <2>3. CASE HaltBase(t) \/ CtrlCBase(t)
        BY <1>1, <2>1, <2>3 DEF HaltBase, CtrlCBase, KeptAt
    <2>4. CASE \/ Launch(t) \/ ReadLine(t) \/ Continue(t) \/ ExecuteFails(t) \/ TestHalt(t)
               \/ ClearHalt(t)
        <3>1. got' = got /\ Top(t).pc \in {"launch", "prompt", "line", "test", "clear"}
            BY <2>4 DEF Launch, ReadLine, Continue, ExecuteFails, TestHalt, ClearHalt, Executes, At
        <3> QED
            BY <1>1, <2>1, <3>1 DEF KeptAt
    <2>5. CASE Halting(t) \/ Exception(t)
        <3>1. PICK q : Replaced(t, q) /\ q.pc = "halt"
            BY <2>5, Steps DEF Goes
        <3>2. Top(t)'.pc = "halt" /\ Caller(t)' = Caller(t) /\ IsBase(t)' = IsBase(t) /\ got' = got
            BY <2>5, <3>1 DEF Replaced, Caller, IsBase, Halting, halt, Exception
        <3> QED
            BY <1>1, <3>2 DEF KeptAt
    <2>6. ASSUME NEW n \in Sizes, getargs(t, n) PROVE KeptAt(t)'
        <3>1. PICK g \in Got : /\ got' = [got EXCEPT ![t] = g]
                               /\ g.ret = 0 => g.buf # <<>> /\ g.buf = Caller(t).arg
            BY <2>6, GetargsGets DEF Got
        <3>2. got'[t] = g
            BY <3>1 DEF Typed
        <3>3. Top(t).pc = "run" /\ ~IsBase(t)
            BY <2>6, RunsAbove DEF getargs, At
        <3>4. Top(t)' = Top(t) /\ IsBase(t)' = IsBase(t) /\ Caller(t)' = Caller(t)
            BY <2>6 DEF getargs, Top, IsBase, Caller
        <3> QED
            BY <3>1, <3>2, <3>3, <3>4 DEF KeptAt
    <2> QED
        BY <2>2, <2>3, <2>4, <2>5, <2>6 DEF Step, Halting
<1> QED
    BY <1>4, <1>5 DEF ArgumentKept, KeptAt

-----------------------------------------------------------------------------
(* How a program ended: the flag that all terminals share *)

\* FlagTells, for one terminal.
TellsAt(t) ==
    /\ Top(t).pc # "prompt" => message[t] = "none"
    /\ Top(t).pc \in {"launch", "line", "run"} => end[t] = "none"
    /\ IsEnding(t) => end[t] \in Ordinary \cup {"exception", "unsure"}
    /\ Top(t).pc = "clear" => end[t] \notin Ordinary
    /\ IsEnding(t) /\ end[t] \in Ordinary => ~global_halt
    /\ IsEnding(t) /\ end[t] = "exception" =>
          global_halt /\ \A u \in Terminals \ {t} : ~IsEnding(u)

\* FlagTells, read terminal by terminal.
LEMMA TellsMeans ==
    FlagTells <=> /\ \A t \in Terminals : TellsAt(t)
                  /\ global_halt /\ ~stale => \E t \in Terminals : WillTest(t)
BY DEF FlagTells, TellsAt, At, Others, IsEnding

\* A step that tells only terminal t anything, and starts no ending.
LEMMA QuietStep ==
    ASSUME FlagTells, NEW t \in Terminals, Elsewhere(t),
           \A u \in Terminals \ {t} : message'[u] = message[u] /\ end'[u] = end[u],
           global_halt' = global_halt, IsEnding(t)' => IsEnding(t),
           TellsAt(t)', stale => stale',
           global_halt /\ ~stale' /\ WillTest(t) => WillTest(t)'
    PROVE  FlagTells'
<1>1. ASSUME NEW u \in Terminals PROVE TellsAt(u)'
    <2>1. CASE u = t
        BY <2>1
    <2>2. CASE u # t
        <3>1. TellsAt(u) /\ Top(u)' = Top(u) /\ IsEnding(u)' = IsEnding(u)
            BY <2>2, TellsMeans, SameElsewhere
        <3>2. \A v \in Terminals : IsEnding(v)' => IsEnding(v)
            BY SameElsewhere
        <3> QED
            BY <2>2, <3>1, <3>2 DEF TellsAt
    <2> QED
        BY <2>1, <2>2
<1>2. ASSUME global_halt', ~stale' PROVE \E u \in Terminals : WillTest(u)'
    <2>1. PICK u \in Terminals : WillTest(u)
        BY <1>2, TellsMeans
    <2> QED
        BY <1>2, <2>1, SameElsewhere
<1> QED
    BY <1>1, <1>2 DEF FlagTells, TellsAt, At, Others, IsEnding

\* FlagTells survives a shell that reads a line.
LEMMA NewLine ==
    ASSUME Typed, Sound, FlagTells, NEW t \in Terminals, ReadLine(t)
    PROVE  FlagTells'
<1>1. PICK q : Replaced(t, q) /\ q.pc = "line"
    BY Steps DEF Goes
<1>2. Top(t)'.pc = "line" /\ Elsewhere(t)
    BY <1>1 DEF Replaced
<1>3. /\ message'[t] = "none" /\ end'[t] = "none" /\ global_halt' = global_halt /\ stale' = stale
      /\ \A u \in Terminals \ {t} : message'[u] = message[u] /\ end'[u] = end[u]
    BY DEF ReadLine, Typed
<1>4. ~IsEnding(t)' /\ ~WillTest(t)
    BY <1>2 DEF ReadLine, IsEnding, WillTest, Ending, At
<1>5. TellsAt(t)'
    BY <1>2, <1>3, <1>4 DEF TellsAt
<1> QED
    BY <1>2, <1>3, <1>4, <1>5, QuietStep

\* Back at the prompt, or at a program's first instruction, after a line.
LEMMA AfterLine ==
    ASSUME Typed, Sound, FlagTells, NEW t \in Terminals,
           Continue(t) \/ ExecuteFails(t) \/ Execute(t)
    PROVE  FlagTells'
<1>1. Top(t).pc = "line" /\ message[t] = "none" /\ end[t] = "none"
    BY TellsMeans DEF Continue, ExecuteFails, Execute, Executes, At, TellsAt
<1>2. /\ Elsewhere(t) /\ Top(t)'.pc \in {"prompt", "run"}
      /\ ExecuteFails(t) => Top(t)'.pc = "prompt"
    <2>1. CASE Continue(t) \/ ExecuteFails(t)
        <3>1. PICK q : Replaced(t, q) /\ q.pc = "prompt"
            BY <2>1, Steps DEF Goes
        <3> QED
            BY <3>1 DEF Replaced
    <2>2. CASE Execute(t) /\ ~ExecuteFails(t)
        <3>1. PICK q, p : Pushed(t, q, p) /\ p.pc \in {"prompt", "run"}
            BY <2>2, Steps DEF Starts
        <3> QED
            BY <2>2, <3>1 DEF Pushed
    <2> QED
        BY <2>1, <2>2
<1>3. /\ global_halt' = global_halt /\ stale' = stale
      /\ \A u \in Terminals \ {t} : message'[u] = message[u] /\ end'[u] = end[u]
      /\ Top(t)'.pc # "prompt" => message'[t] = "none" /\ end'[t] = "none"
    BY <1>1, <1>2 DEF Continue, ExecuteFails, Execute, Typed
<1>4. ~IsEnding(t)' /\ ~WillTest(t)
    BY <1>1, <1>2 DEF IsEnding, WillTest, Ending
<1>5. TellsAt(t)'
    BY <1>2, <1>3, <1>4 DEF TellsAt
<1> QED
    BY <1>2, <1>3, <1>4, <1>5, QuietStep

\* The places of halt and of the return of execute, one after the other.
LEMMA OnTheWay ==
    ASSUME Typed, Sound, FlagTells, NEW t \in Terminals,
           HaltPop(t) \/ (TestHalt(t) /\ global_halt)
    PROVE  FlagTells'
<1>1. TellsAt(t) /\ IsEnding(t)
    BY TellsMeans DEF HaltPop, TestHalt, At, IsEnding, Ending
<1>2. /\ Elsewhere(t) /\ Top(t)'.pc \in {"test", "clear"}
      /\ Top(t)'.pc = "clear" => global_halt
    <2>1. CASE HaltPop(t)
        <3>1. PICK q : Popped(t, q) /\ q.pc = "test"
            BY <2>1, Steps DEF Returns
        <3> QED
            BY <3>1 DEF Popped
    <2>2. CASE TestHalt(t) /\ global_halt
        <3>1. PICK q : Replaced(t, q) /\ q.pc = "clear"
            BY <2>2, Steps DEF Goes
        <3> QED
            BY <2>2, <3>1 DEF Replaced
    <2> QED
        BY <2>1, <2>2
<1>3. message' = message /\ end' = end /\ global_halt' = global_halt /\ stale' = stale
    BY DEF HaltPop, TestHalt
<1>4. IsEnding(t)' /\ WillTest(t)'
    BY <1>2 DEF IsEnding, WillTest, Ending, At
<1>5. Top(t).pc # "prompt"
    BY <1>1 DEF IsEnding, Ending
<1>6. \A u \in Terminals \ {t} : IsEnding(u)' = IsEnding(u)
    BY <1>2, SameElsewhere
<1>7. TellsAt(t)'
    BY <1>1, <1>2, <1>3, <1>4, <1>5, <1>6 DEF TellsAt
<1> QED
    BY <1>1, <1>2, <1>3, <1>4, <1>7, QuietStep

\* Base shells that start, and programs whose end sets no flag.
LEMMA ToThePrompt ==
    ASSUME Typed, Sound, FlagTells, NEW t \in Terminals,
           Launch(t) \/ CtrlCBase(t) \/ (TestHalt(t) /\ ~global_halt)
    PROVE  FlagTells'
<1>1. Elsewhere(t) /\ Top(t)'.pc = "prompt"
    <2>1. CASE Launch(t) \/ CtrlCBase(t)
        <3>1. PICK q : Based(t, q) /\ q.pc = "prompt"
            BY <2>1, Steps DEF Restarts
        <3> QED
            BY <3>1 DEF Based
    <2>2. CASE TestHalt(t) /\ ~global_halt
        <3>1. PICK q : Replaced(t, q) /\ q.pc = "prompt"
            BY <2>2, Steps DEF Goes
        <3> QED
            BY <3>1 DEF Replaced
    <2> QED
        BY <2>1, <2>2
<1>2. /\ global_halt' = global_halt
      /\ \A u \in Terminals \ {t} : message'[u] = message[u] /\ end'[u] = end[u]
    BY DEF Launch, CtrlCBase, TestHalt, Typed
<1>3. stale => stale'
    BY DEF Launch, CtrlCBase, TestHalt
<1>4. ~(global_halt /\ ~stale' /\ WillTest(t))
    <2>1. CASE Launch(t)
        BY <2>1 DEF Launch, WillTest, IsEnding, Ending, At
    <2>2. CASE TestHalt(t) /\ ~global_halt
        BY <2>2
    <2>3. CASE CtrlCBase(t)
        BY <2>3 DEF CtrlCBase, WillTest, IsEnding, Ending, At
    <2> QED
        BY <2>1, <2>2, <2>3
<1>5. ~IsEnding(t)'
    BY <1>1 DEF IsEnding, Ending
<1>6. TellsAt(t)'
    BY <1>1, <1>5 DEF TellsAt
<1> QED
    BY <1>1, <1>2, <1>3, <1>4, <1>5, <1>6, QuietStep

\* A base shell that ends by halt.
LEMMA BaseEnds ==
    ASSUME Typed, Sound, FlagTells, NEW t \in Terminals, HaltBase(t)
    PROVE  FlagTells'
<1>1. PICK q : Based(t, q) /\ q.pc = "launch"
    BY Steps DEF Restarts
<1>2. Top(t)'.pc = "launch" /\ Elsewhere(t)
    BY <1>1 DEF Based
<1>3. /\ message' = message /\ message[t] = "none" /\ end'[t] = "none"
      /\ global_halt' = global_halt /\ stale' = stale
      /\ \A u \in Terminals \ {t} : end'[u] = end[u]
    BY TellsMeans DEF HaltBase, Typed, TellsAt, At
<1>4. ~IsEnding(t)' /\ ~WillTest(t)
    BY <1>2 DEF HaltBase, IsEnding, WillTest, Ending
<1>5. TellsAt(t)'
    BY <1>2, <1>3, <1>4 DEF TellsAt
<1> QED
    BY <1>2, <1>3, <1>4, <1>5, QuietStep

\* FlagTells survives the reset of the flag after its test.
LEMMA FlagCleared ==
    ASSUME Typed, Sound, FlagTells, NEW t \in Terminals, ClearHalt(t)
    PROVE  FlagTells'
<1>1. PICK q : Replaced(t, q) /\ q.pc = "prompt"
    BY Steps DEF Goes
<1>2. Top(t)'.pc = "prompt" /\ Elsewhere(t)
    BY <1>1 DEF Replaced
<1>3. /\ ~global_halt'
      /\ \A u \in Terminals \ {t} : message'[u] = message[u] /\ end'[u] = end[u]
    BY DEF ClearHalt, Cleared, Typed
<1>4. ~IsEnding(t)' /\ IsEnding(t)
    BY <1>2 DEF ClearHalt, IsEnding, Ending, At
<1>5. ASSUME NEW u \in Terminals PROVE TellsAt(u)'
    <2>1. CASE u = t
        BY <1>2, <1>4, <2>1 DEF TellsAt
    <2>2. CASE u # t
        <3>1. TellsAt(u) /\ Top(u)' = Top(u) /\ IsEnding(u)' = IsEnding(u)
            BY <1>2, <2>2, TellsMeans, SameElsewhere
        <3>2. ~(IsEnding(u) /\ end[u] = "exception")
            BY <1>4, <2>2, <3>1 DEF TellsAt
        <3> QED
            BY <1>3, <2>2, <3>1, <3>2 DEF TellsAt
    <2> QED
        BY <2>1, <2>2
<1> QED
    BY <1>3, <1>5 DEF FlagTells, TellsAt, At, Others, IsEnding

\* When two ends are unsure of the flag.
LEMMA ClashIs ==
    ASSUME NEW t \in Terminals, NEW how
    PROVE  Clash(t, how) <=>
              \/ stale
              \/ \E u \in Terminals \ {t} : IsEnding(u) /\ (how = "exception" \/ end[u] \notin Ordinary)
<1>1. \A u : u \in Others(t) <=> u \in Terminals \ {t} /\ IsEnding(u)
    BY DEF Others, IsEnding
<1>2. Clash(t, how) <=>
         stale \/ (Others(t) # {} /\ (how = "exception" \/ \E u \in Others(t) : end[u] \notin Ordinary))
    BY DEF Clash
<1> QED
    BY <1>1, <1>2

\* What the end of a program makes of the ends that the terminals remember.
LEMMA EndAt ==
    ASSUME NEW t \in Terminals, NEW how, NEW u \in Terminals \ {t}
    PROVE  /\ Clash(t, how) /\ IsEnding(u) => EndOf(t, how)[u] = "unsure"
           /\ ~Clash(t, how) \/ ~IsEnding(u) => EndOf(t, how)[u] = end[u]
           /\ Clash(t, how) => EndOf(t, how)[t] = "unsure"
           /\ ~Clash(t, how) => EndOf(t, how)[t] = how
<1>1. u \in Others(t) <=> IsEnding(u)
    BY DEF Others, IsEnding
<1>2. EndOf(t, how)[u] = IF Clash(t, how) /\ u \in Others(t) THEN "unsure" ELSE end[u]
    BY EndOfIs
<1>3. EndOf(t, how)[t] = IF Clash(t, how) THEN "unsure" ELSE how
    BY EndOfIs
<1> QED
    BY <1>1, <1>2, <1>3

\* A program begins to end.
LEMMA EndBegins ==
    ASSUME Typed, Sound, FlagTells, NEW t \in Terminals, Halting(t) \/ Exception(t)
    PROVE  FlagTells'
<1>1. /\ Top(t).pc \in {"run", "line"} /\ message[t] = "none"
      /\ Exception(t) => Top(t).pc = "run"
    BY TellsMeans DEF Halting, halt, Exception, At, TellsAt
<1>2. ~IsEnding(t)
    BY <1>1 DEF IsEnding, Ending
<1>3. Elsewhere(t) /\ Top(t)'.pc = "halt" /\ IsBase(t)' = IsBase(t)
    <2>1. PICK q : Replaced(t, q) /\ q.pc = "halt"
        BY Steps DEF Goes
    <2> QED
        BY <2>1 DEF Replaced, IsBase
<1>4. IsEnding(t)'
    BY <1>3 DEF IsEnding, Ending
<1>5. PICK how \in Halts \cup {"exception"} :
         /\ end' = EndOf(t, how)
         /\ how = "exception" => global_halt' /\ WillTest(t)'
         /\ how # "exception" => global_halt' = global_halt
    <2>1. CASE Halting(t)
        BY <2>1 DEF Halting, halt, Halts
    <2>2. CASE Exception(t)
        <3>1. ~IsBase(t)
            BY <2>2, RunsAbove DEF Exception
        <3> QED
            BY <1>3, <1>4, <2>2, <3>1 DEF Exception, WillTest
    <2> QED
        BY <2>1, <2>2
<1>6. message' = message /\ stale' = stale
    BY DEF Halting, halt, Exception
<1>7. \A u \in Terminals \ {t} :
         /\ TellsAt(u) /\ Top(u)' = Top(u) /\ IsEnding(u)' = IsEnding(u) /\ WillTest(u)' = WillTest(u)
    BY <1>3, TellsMeans, SameElsewhere
<1>8. ASSUME global_halt', ~stale' PROVE \E u \in Terminals : WillTest(u)'
    <2>1. CASE how = "exception"
        BY <1>5, <2>1
    <2>2. CASE how # "exception"
        <3>1. PICK u \in Terminals : WillTest(u)
            BY <1>5, <1>6, <1>8, <2>2, TellsMeans
        <3>2. u # t
            BY <1>2, <3>1 DEF WillTest
        <3> QED
            BY <1>7, <3>1, <3>2
    <2> QED
        BY <2>1, <2>2
<1>9. CASE Clash(t, how)
    <2>1. end'[t] = "unsure" /\ \A u \in Terminals \ {t} :
             end'[u] = IF IsEnding(u) THEN "unsure" ELSE end[u]
        <3>1. end'[t] = "unsure"
            BY <1>5, <1>9, EndOfIs
        <3> QED
            BY <1>5, <1>9, <3>1, EndAt
    <2>2. TellsAt(t)'
        BY <1>1, <1>3, <1>6, <2>1 DEF TellsAt, Ordinary, Halts
    <2>3. \A u \in Terminals \ {t} : TellsAt(u)'
        <3> TAKE u \in Terminals \ {t}
        <3>1. CASE IsEnding(u)
            BY <1>6, <1>7, <2>1, <3>1 DEF TellsAt, IsEnding, Ending, Ordinary, Halts
        <3>2. CASE ~IsEnding(u)
            BY <1>6, <1>7, <2>1, <3>2 DEF TellsAt
        <3> QED
            BY <3>1, <3>2
    <2> QED
        BY <1>8, <2>2, <2>3, TellsMeans DEF FlagTells, TellsAt, At, Others, IsEnding
<1>10. CASE ~Clash(t, how)
    <2>1. /\ ~stale
          /\ \A u \in Terminals \ {t} : IsEnding(u) => how # "exception" /\ end[u] \in Ordinary
        BY <1>10, ClashIs
    <2>2. end'[t] = how /\ \A u \in Terminals \ {t} : end'[u] = end[u]
        <3>1. end'[t] = how
            BY <1>5, <1>10, EndOfIs
        <3> QED
            BY <1>5, <1>10, <3>1, EndAt
    <2>3. how # "exception" => ~global_halt
        <3>1. SUFFICES ASSUME how # "exception", global_halt PROVE FALSE
            OBVIOUS
        <3>2. PICK u \in Terminals : WillTest(u)
            BY <2>1, <3>1, TellsMeans
        <3>3. IsEnding(u) /\ u # t
            BY <1>2, <3>2 DEF WillTest
        <3> QED
            BY <1>7, <2>1, <3>1, <3>3 DEF TellsAt
    <2>4. TellsAt(t)'
        BY <1>1, <1>3, <1>5, <1>6, <1>7, <2>1, <2>2, <2>3 DEF TellsAt, Ordinary, Halts
    <2>5. \A u \in Terminals \ {t} : TellsAt(u)'
        <3> TAKE u \in Terminals \ {t}
        <3>1. CASE IsEnding(u)
            <4>1. end[u] \in Ordinary /\ how # "exception"
                BY <1>5, <2>1, <3>1
            <4> QED
                BY <1>5, <1>6, <1>7, <2>2, <2>3, <4>1 DEF TellsAt
        <3>2. CASE ~IsEnding(u)
            BY <1>6, <1>7, <2>2, <3>2 DEF TellsAt, IsEnding, Ending
        <3> QED
            BY <3>1, <3>2
    <2> QED
        BY <1>8, <2>4, <2>5 DEF FlagTells, TellsAt, At, Others, IsEnding
<1> QED
    BY <1>9, <1>10

\* Ctrl-C clears the flag, and what it cannot tell any more is unsure.
LEMMA CtrlCTells ==
    ASSUME Typed, Sound, FlagTells, NEW t \in Terminals, CtrlCChild(t)
    PROVE  FlagTells'
<1>1. PICK q : Popped(t, q) /\ q.pc = "prompt"
    BY Steps DEF Returns
<1>2. Top(t)'.pc = "prompt" /\ Elsewhere(t)
    BY <1>1 DEF Popped
<1>3. ~global_halt' /\ \A u \in Terminals \ {t} : message'[u] = message[u]
    BY DEF CtrlCChild, Typed
<1>4. ~IsEnding(t)'
    BY <1>2 DEF IsEnding, Ending
<1>5. ASSUME NEW u \in Terminals \ {t}
      PROVE  /\ end'[u] = end[u] \/ (IsEnding(u) /\ end'[u] = "unsure")
             /\ IsEnding(u) /\ end[u] = "exception" => end'[u] = "unsure"
    <2>1. CASE At(t, "halt")
        <3>1. end' = EndOf(t, end[t]) /\ IsEnding(t)
            BY <2>1 DEF CtrlCChild, IsEnding, Ending, At
        <3>2. ~(IsEnding(u) /\ end[u] = "exception")
            BY <3>1, TellsMeans DEF TellsAt
        <3> QED
            BY <3>1, <3>2, EndAt
    <2>2. CASE ~At(t, "halt") /\ (At(t, "test") \/ At(t, "clear"))
        <3>1. end' = [end EXCEPT ![t] = "unsure"] /\ IsEnding(t)
            BY <2>2 DEF CtrlCChild, IsEnding, Ending, At
        <3>2. ~(IsEnding(u) /\ end[u] = "exception")
            BY <3>1, TellsMeans DEF TellsAt
        <3> QED
            BY <3>1, <3>2 DEF Typed
    <2>3. CASE ~At(t, "halt") /\ ~(At(t, "test") \/ At(t, "clear"))
        <3>1. end' = EndOf(t, "ctrl-c")
            BY <2>3 DEF CtrlCChild
        <3>2. IsEnding(u) /\ end[u] = "exception" => Clash(t, "ctrl-c")
            BY ClashIs DEF Ordinary, Halts
        <3> QED
            BY <3>1, <3>2, EndAt
    <2> QED
        BY <2>1, <2>2, <2>3
<1>6. ASSUME NEW u \in Terminals PROVE TellsAt(u)'
    <2>1. CASE u = t
        BY <1>2, <1>4, <2>1 DEF TellsAt
    <2>2. CASE u # t
        <3>1. TellsAt(u) /\ Top(u)' = Top(u) /\ IsEnding(u)' = IsEnding(u)
            BY <1>2, <2>2, TellsMeans, SameElsewhere
        <3>2. IsEnding(u) => Top(u).pc \notin {"launch", "line", "run"}
            BY DEF IsEnding, Ending
        <3> QED
            BY <1>3, <1>5, <2>2, <3>1, <3>2 DEF TellsAt, Ordinary, Halts
    <2> QED
        BY <2>1, <2>2
<1> QED
    BY <1>3, <1>6 DEF FlagTells, TellsAt, At, Others, IsEnding

\* FlagTells is preserved: one step per action.
LEMMA FlagStep ==
    ASSUME Typed, Sound, FlagTells, NEW t \in Terminals, Step(t)
    PROVE  FlagTells'
<1>1. ASSUME NEW n \in Sizes, getargs(t, n) PROVE FlagTells'
    BY <1>1 DEF getargs, FlagTells, IsEnding, WillTest, Others, At, Top, IsBase
<1> QED
    BY <1>1, NewLine, AfterLine, OnTheWay, ToThePrompt, FlagCleared, BaseEnds, EndBegins,
       CtrlCTells DEF Step, Halting

-----------------------------------------------------------------------------
(* What the shell says of an end *)

\* ReportsEnd, for one terminal.
ReportAt(t) ==
    Top(t).pc = "prompt" =>
       /\ end[t] = "exception" => message[t] = "exception"
       /\ end[t] \in Ordinary => message[t] # "exception"
       /\ end[t] = "failed" <=> message[t] = "no such command"

\* Terminals at their prompt do not notice the ends of others.
LEMMA ReportElsewhere ==
    ASSUME Typed, Sound, ReportsEnd, NEW t \in Terminals, Step(t), NEW u \in Terminals \ {t}
    PROVE  ReportAt(u)'
<1>1. SUFFICES ASSUME Top(u).pc = "prompt" PROVE end'[u] = end[u] /\ message'[u] = message[u]
    <2>1. Top(u)' = Top(u)
        BY ActionSteps, StepSound, SameElsewhere DEF Typed
    <2> QED
        BY <1>1, <2>1 DEF ReportsEnd, ReportAt, At
<1>2. \A how : EndOf(t, how)[u] = end[u]
    BY <1>1, EndAt DEF IsEnding, Ending
<1>3. message'[u] = message[u]
    BY DEF Step, Launch, ReadLine, Continue, ExecuteFails, Execute, getargs, halt, Exception,
       HaltBase, HaltPop, TestHalt, ClearHalt, CtrlCBase, CtrlCChild, Typed
<1>4. end'[u] = end[u]
    <2>1. CASE \/ Launch(t) \/ ReadLine(t) \/ Continue(t) \/ ExecuteFails(t) \/ Execute(t)
               \/ HaltBase(t) \/ HaltPop(t) \/ TestHalt(t) \/ ClearHalt(t) \/ CtrlCBase(t)
               \/ \E n \in Sizes : getargs(t, n)
        BY <2>1 DEF Launch, ReadLine, Continue, ExecuteFails, Execute, getargs, HaltBase, HaltPop,
           TestHalt, ClearHalt, CtrlCBase, Typed
    <2>2. CASE Halting(t) \/ Exception(t)
        BY <1>2, <2>2 DEF Halting, halt, Exception
    <2>3. CASE CtrlCChild(t)
        BY <1>2, <2>3 DEF CtrlCChild, Typed
    <2> QED
        BY <2>1, <2>2, <2>3 DEF Step, Halting
<1> QED
    BY <1>3, <1>4

\* Ctrl-C has its caller report what the flag says.
LEMMA CtrlCReports ==
    ASSUME Typed, Sound, FlagTells, NEW t \in Terminals, CtrlCChild(t)
    PROVE  ReportAt(t)'
<1>1. TellsAt(t) /\ message'[t] = IF global_halt THEN "exception" ELSE "none"
    BY TellsMeans DEF CtrlCChild, Said, Returned, EXCEPTION_256, Typed
<1>2. CASE At(t, "halt")
    <2>1. /\ IsEnding(t) /\ end' = EndOf(t, end[t])
        BY <1>2 DEF CtrlCChild, IsEnding, Ending, At
    <2>2. end'[t] = IF Clash(t, end[t]) THEN "unsure" ELSE end[t]
        BY <2>1, EndOfIs
    <2> QED
        BY <1>1, <2>1, <2>2 DEF ReportAt, TellsAt, Ordinary, Halts
<1>3. CASE ~At(t, "halt") /\ (At(t, "test") \/ At(t, "clear"))
    <2>1. end'[t] = "unsure"
        BY <1>3 DEF CtrlCChild, Typed
    <2> QED
        BY <1>1, <2>1 DEF ReportAt, Ordinary, Halts
<1>4. CASE ~At(t, "halt") /\ ~(At(t, "test") \/ At(t, "clear"))
    <2>1. ~IsEnding(t) /\ end' = EndOf(t, "ctrl-c")
        BY <1>4 DEF CtrlCChild, IsEnding, Ending, At
    <2>2. end'[t] = IF Clash(t, "ctrl-c") THEN "unsure" ELSE "ctrl-c"
        BY <2>1, EndOfIs
    <2>3. ~Clash(t, "ctrl-c") => ~global_halt
        <3>1. SUFFICES ASSUME ~Clash(t, "ctrl-c"), global_halt PROVE FALSE
            OBVIOUS
        <3>2. /\ ~stale
              /\ \A u \in Terminals \ {t} : IsEnding(u) => end[u] \in Ordinary
            BY <3>1, ClashIs
        <3>3. PICK u \in Terminals : WillTest(u)
            BY <3>1, <3>2, TellsMeans
        <3> QED
            BY <2>1, <3>1, <3>2, <3>3, TellsMeans DEF WillTest, TellsAt
    <2> QED
        BY <1>1, <2>2, <2>3 DEF ReportAt, Ordinary, Halts
<1> QED
    BY <1>2, <1>3, <1>4

\* ReportsEnd is preserved: only a shell that reports matters.
LEMMA ReportStep ==
    ASSUME Typed, Sound, FlagTells, ReportsEnd, NEW t \in Terminals, Step(t)
    PROVE  ReportsEnd'
<1>1. TellsAt(t) /\ FlagTells'
    BY TellsMeans, FlagStep
<1>2. ReportAt(t)'
    <2>1. CASE ReadLine(t) \/ HaltPop(t) \/ (TestHalt(t) /\ global_halt) \/ Halting(t) \/ Exception(t)
        <3>1. Top(t)'.pc \in {"line", "test", "clear", "halt"}
            BY <2>1, Steps DEF Goes, Returns, Replaced, Popped
        <3> QED
            BY <3>1 DEF ReportAt
    <2>2. CASE Continue(t) \/ Execute(t)
        <3>1. message[t] = "none" /\ end[t] = "none" /\ message' = message /\ end' = end
            BY <1>1, <2>2 DEF Continue, Execute, Executes, At, TellsAt
        <3> QED
            BY <3>1 DEF ReportAt
    <2>3. CASE ExecuteFails(t)
        <3>0. Said(-1) = "no such command"
            BY DEF Said
        <3>1. end'[t] = "failed" /\ message'[t] = "no such command"
            BY <2>3, <3>0 DEF ExecuteFails, Typed
        <3> QED
            BY <3>1 DEF ReportAt, Ordinary, Halts
    <2>4. ASSUME NEW n \in Sizes, getargs(t, n) PROVE ReportAt(t)'
        BY <2>4 DEF getargs, ReportAt, ReportsEnd, At, Top
    <2>5. CASE Launch(t) \/ HaltBase(t)
        <3>1. message'[t] = "none" /\ end'[t] = "none"
            BY <1>1, <2>5 DEF Launch, HaltBase, At, TellsAt, Typed
        <3> QED
            BY <3>1 DEF ReportAt
    <2>6. CASE TestHalt(t) /\ ~global_halt
        <3>1. IsEnding(t) /\ message'[t] = "none" /\ end'[t] = end[t]
            BY <2>6 DEF TestHalt, Said, Returned, At, IsEnding, Ending, Typed
        <3> QED
            BY <1>1, <2>6, <3>1 DEF ReportAt, TellsAt, Ordinary, Halts
    <2>7. CASE ClearHalt(t)
        <3>1. IsEnding(t) /\ Top(t).pc = "clear" /\ message'[t] = "exception" /\ end'[t] = end[t]
            BY <2>7 DEF ClearHalt, Said, Returned, EXCEPTION_256, At, IsEnding, Ending, Typed
        <3> QED
            BY <1>1, <3>1 DEF ReportAt, TellsAt, Ordinary, Halts
    <2>8. CASE CtrlCBase(t)
        BY <2>8 DEF CtrlCBase, ReportAt, Typed
    <2> QED
        BY <2>1, <2>2, <2>3, <2>4, <2>5, <2>6, <2>7, <2>8, CtrlCReports DEF Step, Halting
<1>3. \A u \in Terminals : ReportAt(u)'
    BY <1>2, ReportElsewhere
<1> QED
    BY <1>3 DEF ReportsEnd, ReportAt, At

-----------------------------------------------------------------------------
(* The theorems *)

ShellInv == Typed /\ Sound /\ ArgumentKept /\ FlagTells /\ ReportsEnd /\ fault \in BOOLEAN

\* The invariant holds before the shells are launched.
LEMMA ShellInit == Init => ShellInv
<1> SUFFICES ASSUME Init PROVE ShellInv
    OBVIOUS
<1> DEFINE base == <<Awaited>>
<1>1. Awaited \in Process /\ Awaited.pc = "launch" /\ Awaited.name = SHELL
    BY BaseProcess
<1>2. base \in Stack /\ Len(base) = 1 /\ base[1] = Awaited /\ Last(base) = Awaited
    BY <1>1 DEF Stack, Last
<1> HIDE DEF base
<1>3. \A t \in Terminals : stack[t] = base
    BY DEF Init, base
<1>4. \A t \in Terminals : Top(t).pc = "launch" /\ ~IsEnding(t)
    BY <1>1, <1>2, <1>3 DEF Top, IsEnding, Ending
<1>5. Typed
    BY <1>2, NothingType DEF Init, Typed, Got, base, Messages, Ends
<1>6. Sound
    BY <1>1, <1>2, <1>3 DEF Sound, ByCommand
<1>7. ArgumentKept
    BY DEF Init, ArgumentKept
<1>8. FlagTells
    BY <1>4 DEF Init, FlagTells, At
<1>9. ReportsEnd
    BY <1>4 DEF ReportsEnd, At
<1> QED
    BY <1>5, <1>6, <1>7, <1>8, <1>9 DEF ShellInv, Init

\* The invariant is inductive.
LEMMA ShellStep == ShellInv /\ [Next]_vars => ShellInv'
<1> SUFFICES ASSUME ShellInv, [Next]_vars PROVE ShellInv'
    OBVIOUS
<1> USE DEF ShellInv
<1>1. ASSUME NEW t \in Terminals, Step(t), fault' = FALSE PROVE ShellInv'
    <2>1. Sound'
        BY <1>1, ActionSteps, StepSound DEF Typed
    <2> QED
        BY <1>1, <2>1, TypedStep, KeptStep, FlagStep, ReportStep
<1>2. CASE UNCHANGED <<stack, global_halt, message, got, end, stale>> /\ fault' \in BOOLEAN
    <2> USE <1>2
    <2>1. Typed' /\ Sound'
        BY DEF Typed, Sound, ByCommand
    <2>2. ArgumentKept' /\ ReportsEnd'
        BY DEF ArgumentKept, ReportsEnd, At, Top, IsBase, Caller
    <2>3. FlagTells'
        BY DEF FlagTells, At, Top, IsBase, IsEnding, WillTest, Others
    <2> QED
        BY <2>1, <2>2, <2>3
<1>3. CASE UNCHANGED vars \/ Stopped
    BY <1>2, <1>3 DEF Stopped, vars
<1>4. CASE \E t \in Terminals : Faults(t) /\ fault' = TRUE
    BY <1>2, <1>4 DEF Faults, LaunchFaults, CtrlCFaults
<1> QED
    BY <1>1, <1>3, <1>4 DEF Next

\* The invariant from which the properties of Shell follow.
LEMMA ShellAlways == Spec => []ShellInv
BY ShellInit, ShellStep, PTL DEF Spec

\* Every process of a terminal is at a place of its program, under a name of the
\* directory, and its line and argument are strings; getargs returns 0 or -1.
THEOREM TypeCorrect == Spec => []TypeOK
<1>1. ShellInv => TypeOK
    <2> SUFFICES ASSUME ShellInv PROVE TypeOK
        OBVIOUS
    <2>1. Stacked
        BY SoundMeans DEF ShellInv
    <2>2. ASSUME NEW t \in Terminals, NEW k \in DOMAIN stack[t] PROVE stack[t][k] \in Process
        <3>1. stack[t] \in Seq(Process)
            BY <2>1 DEF Stacked
        <3> QED
            BY <2>2, <3>1, ElementOfSeq
    <2>3. \A t \in Terminals : \A k \in DOMAIN stack[t] :
             /\ stack[t][k].pc \in PC
             /\ stack[t][k].name \in DOMAIN Kind
             /\ {stack[t][k].buf, stack[t][k].arg} \subseteq Seq(Char)
        BY <2>2 DEF Process
    <2> QED
        BY <2>1, <2>3 DEF TypeOK, Stacked, ShellInv
<1> QED
    BY <1>1, ShellAlways, PTL

\* A program that runs is the one its command names, with the rest of the
\* command as its argument, in the frame of the execute that started it.
THEOREM CommandRuns == Spec => []RunsCommand
<1>1. ShellInv => RunsCommand
    BY SoundMeans DEF ShellInv
<1> QED
    BY <1>1, ShellAlways, PTL

\* getargs hands out the argument of the command that started the program.
THEOREM OwnArgument == Spec => []GetsOwnArgument
<1>1. ShellInv => GetsOwnArgument
    <2> SUFFICES ASSUME ShellInv, NEW t \in Terminals, got[t] # NOTHING, got[t].ret = 0
                 PROVE  /\ got[t].buf # <<>>
                        /\ Reads(Caller(t).buf, Top(t).name, got[t].buf)
        BY DEF GetsOwnArgument
    <2>1. ~IsBase(t) /\ got[t].buf # <<>> /\ got[t].buf = Caller(t).arg
        BY DEF ShellInv, ArgumentKept
    <2>2. RunsCommand /\ Sound
        BY SoundMeans DEF ShellInv
    <2>3. /\ Len(stack[t]) \in Nat \ {0, 1} /\ Top(t) = stack[t][Len(stack[t])]
          /\ Caller(t) = stack[t][Len(stack[t]) - 1]
        BY <2>1, <2>2, TopAndCaller
    <2>4. Len(stack[t]) \in Child(t)
        <3> DEFINE n == Len(stack[t])
        <3>1. n \in Nat \ {0, 1}
            BY <2>3
        <3> HIDE DEF n
        <3>2. n \in 2 .. n
            BY <3>1
        <3> QED
            BY <3>2 DEF Child, n
    <2> QED
        BY <2>1, <2>2, <2>3, <2>4 DEF RunsCommand
<1> QED
    BY <1>1, ShellAlways, PTL

\* The shell says that its program was terminated by an exception if it was, and
\* not if it ended by halt or Ctrl-C, whatever the other terminals do with the flag that all share, unless
\* programs of two terminals were ending at the same time or Ctrl-C struck while
\* execute was returning.
THEOREM EndReported == Spec => []ReportsEnd
BY ShellAlways, PTL DEF ShellInv
============================================================================
