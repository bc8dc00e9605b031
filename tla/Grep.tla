-------------------------------- MODULE Grep --------------------------------
(***************************************************************************)
(* The program grep (ece391grep.c): it searches the files of the directory *)
(* through a buffer that holds whole lines and the beginning of one more,  *)
(* which is moved to the front before the next read.  The reads are those  *)
(* of Files, which do not stop at the end of a file.                       *)
(***************************************************************************)
EXTENDS Files, SequencesExt

CONSTANTS
    BUFSIZE,    \* characters of the buffer, 1024
    Image,      \* what the bytes of the image may be: functions to characters
    Search      \* the arguments that grep is called with

ASSUME BufferAssumption == BUFSIZE \in Nat \ {0}
ASSUME SearchAssumption ==
    \A s \in Search : s \in Seq(STRING) /\ s # <<>> /\ "" \notin ToSet(s)

VARIABLES
    gpc,        \* "off", "open", "main", "read", "scan" or "close"
    text,       \* of each byte of the image: its character
    s,          \* what is searched
    name, fd,   \* the file, and its descriptor
    data,       \* the buffer, which has room for one character more
    last,       \* characters in it
    line_start,
    cnt,        \* result of the last read
    printed,    \* the lines reported for this file
    past,       \* a read has gone beyond the end of the file
    cut         \* an uninitialised byte was taken for the end of a line

grepVars == <<gpc, text, s, name, fd, data, last, line_start, cnt, printed, past, cut>>
fileVars == <<name, fd, data, last, line_start, cnt, printed, past, cut>>

NUL == ""
UNKNOWN == "?"   \* a byte of the buffer that nothing was written to yet
Unread == [k \in 0 .. BUFSIZE |-> UNKNOWN]
GrepInit ==
    /\ gpc = "off" /\ text = <<>> /\ s = <<>>
    /\ name = "" /\ fd = -1 /\ data = Unread /\ last = 0 /\ line_start = 0
    /\ cnt = 0 /\ printed = <<>> /\ past = FALSE /\ cut = FALSE

\* A call of do_one_file; its buffer is on the stack.
NewFile(n, k) ==
    /\ name' = n /\ fd' = k /\ data' = Unread /\ last' = 0 /\ line_start' = 0
    /\ cnt' = 0 /\ printed' = <<>> /\ past' = FALSE /\ cut' = FALSE
NoFile == NewFile("", -1)

-----------------------------------------------------------------------------
(* main, in slot p.  Which names the directory yields is left open; only *)
(* "." is a directory.                                                   *)

GrepStart(p) ==
    /\ gpc = "off"
    /\ init_pcb(p, "child")
    /\ text' \in Image /\ s' \in Search
    /\ gpc' = "open"
    /\ UNCHANGED fileVars

OpenDirectory(p) ==
    /\ gpc = "open"
    /\ \E k \in Fds : open(p, ".", k)
    /\ gpc' = "main"
    /\ UNCHANGED <<text, s, fileVars>>

OpenFile(p) ==
    /\ gpc = "main"
    /\ \E n \in Name \ {"."}, k \in Fds : open(p, n, k) /\ NewFile(n, k)
    /\ gpc' = "read"
    /\ UNCHANGED <<text, s>>

\* The end of the directory, or no descriptor left.
GrepReturn(p) ==
    /\ \/ gpc = "main"
       \/ gpc = "open" /\ \A k \in Fds : ~IsFree(p, k)
    /\ halt(p)
    /\ gpc' = "off" /\ text' = <<>> /\ s' = <<>> /\ NoFile

-----------------------------------------------------------------------------
(* do_one_file.  No read fails: ImageAssumption gives every file its blocks. *)

ReadMore(p) ==
    /\ gpc = "read"
    /\ read(p, fd, BUFSIZE - last)
    /\ LET bytes == file_read(file_descriptor[p][fd], BUFSIZE - last)
       IN /\ data' = [k \in 0 .. BUFSIZE |-> IF k \in last .. last + Len(bytes) - 1
                                            THEN text[bytes[k - last + 1]] ELSE data[k]]
          /\ cnt' = Len(bytes)
          /\ last' = last + Len(bytes)
    /\ past' = (past \/ file_descriptor'[p][fd].file_position_ > length_[inode_num_[name]])
    /\ line_start' = 0
    /\ gpc' = "scan"
    /\ UNCHANGED <<text, s, name, fd, printed, cut>>

\* The directory lists rtc too: its read waits for an interrupt and returns 0.
ReadRtc(p) ==
    /\ gpc = "read"
    /\ file_descriptor[p][fd].type = RTC_TYPE
    /\ cnt' = 0
    /\ line_start' = 0
    /\ gpc' = "scan"
    /\ UNCHANGED <<vars, text, s, name, fd, data, last, printed, past, cut>>

\* The first place from k on and before the limit that has this character, or
\* else the limit.
First(chars, c, k, limit) == Min({limit} \cup {j \in DOMAIN chars : j >= k /\ chars[j] = c})
line_end == First(data, "\n", line_start, last)

\* Behind the last character there is what was there before.
IsNewline(k) == IF data[k] = UNKNOWN THEN BOOLEAN ELSE {data[k] = "\n"}
Ended == [data EXCEPT ![line_end] = NUL]

\* The line may go on in the file: move it to the front.  The copy ends at the
\* first NUL; what the file has behind it stays where it was.
IncompleteAlways(newline) == ~newline /\ cnt # 0
Incomplete(newline) == ~newline /\ cnt # 0 /\ line_start # 0
MoveDown ==
    LET stop == First(Ended, NUL, line_start, BUFSIZE)
    IN data' = [k \in 0 .. BUFSIZE |-> IF k + line_start <= stop THEN Ended[k + line_start]
                                       ELSE Ended[k]]
KeepLine ==
    /\ gpc = "scan"
    /\ \E newline \in IsNewline(line_end) : Incomplete(newline)
    /\ MoveDown
    /\ last' = last - line_start
    /\ gpc' = "read"
    /\ UNCHANGED <<vars, text, s, name, fd, line_start, cnt, printed, past, cut>>

\* Search the line, and print it up to its first NUL.
Occurs(in, from, to) ==
    \E check \in from .. to - Len(s) : \A j \in DOMAIN s : in[check + j - 1] = s[j]
Printed ==
    LET stop == First(Ended, NUL, line_start, line_end)
    IN [j \in 1 .. stop - line_start |-> Ended[line_start + j - 1]]
NextLine == line_end + 1
SearchLine ==
    /\ gpc = "scan"
    /\ \E newline \in IsNewline(line_end) :
          /\ ~Incomplete(newline)
          /\ cut' = (cut \/ (newline /\ data[line_end] = UNKNOWN))
    /\ data' = Ended
    /\ printed' = IF Occurs(Ended, line_start, line_end) THEN Append(printed, Printed) ELSE printed
    /\ line_start' = NextLine
    /\ IF NextLine < last
       THEN UNCHANGED <<gpc, last>>
       ELSE last' = 0 /\ gpc' = IF cnt = 0 THEN "close" ELSE "read"
    /\ UNCHANGED <<vars, text, s, name, fd, cnt, past>>

CloseFile(p) ==
    /\ gpc = "close"
    /\ close(p, fd)
    /\ gpc' = "main"
    /\ NoFile
    /\ UNCHANGED <<text, s>>

do_one_file(p) ==
    OpenFile(p) \/ ReadMore(p) \/ ReadRtc(p) \/ KeepLine \/ SearchLine \/ CloseFile(p)
GrepNext(p) == GrepStart(p) \/ OpenDirectory(p) \/ do_one_file(p) \/ GrepReturn(p)

-----------------------------------------------------------------------------
(* Properties *)

\* The characters of the file; where its lines begin, which is behind newlines;
\* and a line, up to the next newline or to the end.
Chars == [n \in 1 .. length_[inode_num_[name]] |-> text[Content(inode_num_[name])[n]]]
Begins(chars) == {n \in 1 .. Len(chars) : n = 1 \/ chars[n - 1] = "\n"}
Line(chars, n) ==
    SubSeq(chars, n, First(chars, "\n", n, Len(chars) + 1) - 1)
Holding(chars) ==
    {n \in Begins(chars) : Occurs(Line(chars, n), 1, Len(Line(chars, n)) + 1)}

\* A list is that of the lines that hold the argument and begin at one of the
\* first n characters, in their order.
Reports(chars, list, n) ==
    \E begins \in [DOMAIN list -> {m \in Holding(chars) : m <= n}] :
       /\ \A j, k \in DOMAIN list : j < k => begins[j] < begins[k]
       /\ \A m \in Holding(chars) : m <= n => \E k \in DOMAIN list : begins[k] = m
       /\ \A k \in DOMAIN list : list[k] = Line(chars, begins[k])
Finds(chars, n) ==
    \A m \in Holding(chars) :
       m <= n => \E k \in DOMAIN printed : IsPrefix(Line(chars, m), printed[k])

\* There is no NUL in the file, and its lines fit.
Fits(chars) ==
    /\ \A n \in DOMAIN chars : chars[n] # NUL
    /\ \A n \in Begins(chars) : Len(Line(chars, n)) <= BUFSIZE

\* However the lines lie in the buffer, every line of the file that holds the
\* argument is printed, the last one perhaps with what lies behind the file;
\* and if no read went beyond the end of the file, nothing else is printed.
\* Provided that the lines fit and that the byte behind the buffer, which
\* nothing initialises, does not happen to be a newline.
FindsEveryLine ==
    gpc = "close" /\ ~cut /\ file_type_[name] = FILE_TYPE =>
      \E chars \in {Chars} :
        Fits(chars) => /\ Finds(chars, Len(chars))
                       /\ ~past => Reports(chars, printed, Len(chars))

-----------------------------------------------------------------------------
(* Bounds.                                                                  *)

\* grep stays inside its buffer: a read is never asked for more than there is
\* room for, and the newline that ends a line, which is overwritten, is one of
\* the buffer's characters or the one behind them.
InBuffer ==
    /\ gpc \in {"off", "open", "main", "read", "scan", "close"}
    /\ DOMAIN data = 0 .. BUFSIZE
    /\ last \in 0 .. BUFSIZE
    /\ gpc \in {"read", "scan", "close"} => fd \in Fds
    /\ gpc = "scan" => /\ line_start \in 0 .. last
                       /\ line_start = 0 \/ line_start < last
                       /\ line_end \in line_start .. last

-----------------------------------------------------------------------------
(* The inductive invariant behind FindsEveryLine, of grep in slot p.         *)

\* The file's position; where in the file the buffer begins; and how far the
\* lines are dealt with.
Position(p) == file_descriptor[p][fd].file_position_
Base(p) == Position(p) - last
From == IF gpc = "scan" THEN line_start ELSE 0
Handled(p) == Base(p) + From

\* The buffer holds the file from its base on, as far as there is a file, and a
\* newline only where the scan has still to come; a scan of a file that goes on
\* has a full buffer.
Buffered(p, chars) ==
    /\ last <= Position(p)
    /\ \A k \in 0 .. BUFSIZE : data[k] = "\n" => gpc = "scan" /\ k \in line_start .. last - 1
    /\ \A k \in From .. last - 1 : Base(p) + k < Len(chars) => data[k] = chars[Base(p) + k + 1]
    /\ gpc = "read" => last < BUFSIZE
    /\ gpc = "scan" /\ Position(p) < Len(chars) => last = BUFSIZE /\ cnt # 0
    /\ gpc = "close" => last = 0 /\ Position(p) >= Len(chars)

\* A line begins here; or it ends here and was dealt with, as it filled the
\* buffer up; or the file is over.  The lines before are reported.
Reporting(p, chars) ==
    /\ \/ Handled(p) = 0 \/ Handled(p) >= Len(chars)
       \/ chars[Handled(p)] = "\n" \/ chars[Handled(p) + 1] = "\n"
    /\ Finds(chars, Handled(p))
    /\ ~past => Reports(chars, printed, Handled(p))

Searching(p) ==
    gpc \in {"read", "scan", "close"} =>
       /\ Running(p) /\ name \in Name /\ fd \in own[p]
       /\ file_descriptor[p][fd].type = file_type_[name]
       /\ file_type_[name] = FILE_TYPE =>
             /\ file_descriptor[p][fd].inode_ = inode_num_[name]
             /\ past <=> Position(p) > length_[inode_num_[name]]
             /\ \E chars \in {Chars} :
                   ~cut /\ Fits(chars) => Buffered(p, chars) /\ Reporting(p, chars)
=============================================================================
