-------------------------------- MODULE Runtime --------------------------------
(***************************************************************************)
(* runtime/rootrt.c as a compiled program uses it through stdlib/root.rtl: *)
(* texts, lines of the standard input, and files.  A str is a pointer: to  *)
(* memory of its own, or into one of the two buffers that rt_in_line and   *)
(* rt_file_read_line return over and over.                                 *)
(*                                                                         *)
(* The program is any sequence of calls, on handles it has open.  Below it *)
(* are the streams of the C library: what is written waits in the stream,  *)
(* a file that fits in a stream's memory is read as it is at the first     *)
(* read, and the end is noticed by a read that comes short.  A read of a   *)
(* file may fail, and be tried again; one of the standard input does not,  *)
(* and what is written finds room on the disk.                             *)
(***************************************************************************)
EXTENDS Integers, Sequences, SequencesExt, FiniteSets

CONSTANTS
    Handles, Vars,  \* the program's variables of type any and str
    Looped,         \* the handle it reads in a loop until it has ended
    Files,          \* the paths it opens
    Contents,       \* what a file may hold at the start: texts, or None
    Inputs,         \* what may come in on stdin
    Writes,         \* the texts it writes to a file
    BufSize,        \* sizeof(buf)
    Slices,         \* the pairs of integers it gives to str_slice
    MaxText,        \* bound: the length of a file it writes
    MaxMade,        \* bound: the length of a text it makes
    None

NL == "\n"
Digits == {"1"}
Signs  == {"-", "+"}
Blanks == {" ", NL}
Stale  == "?"       \* a byte that some earlier line has left in a buffer

ASSUME RuntimeAssumption ==
    /\ Looped \in Handles
    /\ BufSize \in Nat /\ BufSize >= 2
    /\ Slices \subseteq Int \X Int /\ MaxText \in Nat /\ MaxMade \in 0..MaxText
    /\ None \notin Files \cup Vars

(* A text is a sequence of characters; a file that is not there has none.  *)
Text == Seq(STRING)

ASSUME TextsAssumption ==
    /\ Contents \subseteq Text \cup {None}
    /\ Inputs \cup Writes \subseteq Text
    /\ None \notin Text /\ Stale \in STRING

VARIABLES
    content,    \* the files on disk
    stream,     \* what each handle is
    stdin,      \* what is left of the standard input
    in_buf,     \* buf of rt_in_line
    file_buf,   \* buf of rt_file_read_line
    var,        \* where each str points
    halted,     \* whether the program has called rt_halt
    \* for the properties only
    input, asked,   \* all of the input, and the texts read from it so far
    pieces,         \* what reads of each handle returned
    saved,          \* what was written to each file since it was opened for that
    meant, fresh    \* the text a variable was given; whether its buffer is still its own

program == <<content, stream, stdin, in_buf, file_buf, var, halted>>
vars == <<program, input, asked, pieces, saved, meant, fresh>>

Closed == [is |-> "closed"]
NULL   == [is |-> "null"]
Reader(f)  == [is |-> "reader", file |-> f, text |-> None, pos |-> 0, eof |-> FALSE, error |-> FALSE]
Writer(f)  == [is |-> "writer", file |-> f, linked |-> TRUE, waiting |-> <<>>]

Own(text) == [at |-> "own", text |-> text]
InBuf     == [at |-> "in_buf"]
FileBuf   == [at |-> "file_buf"]

(* The characters a variable points to.                                    *)
Chars(v) ==
    CASE var[v].at = "own" -> var[v].text
      [] var[v].at = "in_buf" -> in_buf
      [] var[v].at = "file_buf" -> file_buf

Init ==
    /\ content \in [Files -> Contents]
    /\ stream = [h \in Handles |-> Closed]
    /\ input \in Inputs
    /\ stdin = input
    /\ in_buf = <<>> /\ file_buf = <<>>
    /\ var = [v \in Vars |-> Own(<<>>)]
    /\ halted = FALSE
    /\ asked = <<>>
    /\ pieces = [h \in Handles |-> <<>>]
    /\ saved = content
    /\ meant = [v \in Vars |-> <<>>]
    /\ fresh = [v \in Vars |-> TRUE]

Is(h, what) == stream[h].is = what
Streams     == UNCHANGED <<content, stream, pieces, saved>>
Input       == UNCHANGED <<stdin, in_buf, input, asked>>
Variables   == UNCHANGED <<var, meant, fresh, file_buf>>

(* fgets: up to BufSize - 1 characters, and none behind a newline.         *)
fgets(s) ==
    LET end == SelectInSeq(s, LAMBDA c : c = NL)
        n   == IF end = 0 THEN Len(s) ELSE end
    IN  SubSeq(s, 1, IF n < BufSize THEN n ELSE BufSize - 1)

(***************************************************************************)
(* Files.                                                                  *)
(***************************************************************************)
Writing(f) == \E h \in Handles : Is(h, "writer") /\ stream[h].file = f

(* fopen fails when it likes, and to read a file that is not there.  The   *)
(* program does not write a file through two handles at once.              *)
file_open(h, f, mode) ==
    /\ Is(h, "closed")
    /\ \/ /\ stream' = [stream EXCEPT ![h] = NULL]
          /\ UNCHANGED <<content, saved>>
       \/ /\ mode = "r" /\ content[f] # None
          /\ stream' = [stream EXCEPT ![h] = Reader(f)]
          /\ UNCHANGED <<content, saved>>
       \/ /\ mode = "w" /\ ~Writing(f)
          /\ stream' = [stream EXCEPT ![h] = Writer(f)]
          /\ content' = [content EXCEPT ![f] = <<>>]
          /\ saved' = [saved EXCEPT ![f] = <<>>]
    /\ Input /\ Variables
    /\ UNCHANGED <<halted, pieces>>

(* What the streams in hs hold goes to the files that still have a name.   *)
Flushed(hs) ==
    [f \in Files |->
        LET of == {h \in hs : Is(h, "writer") /\ stream[h].file = f /\ stream[h].linked} IN
        IF of = {} THEN content[f] ELSE content[f] \o stream[CHOOSE h \in of : TRUE].waiting]

(* Mutant: the test for NULL is the wrong way round.                       *)
file_close_wrong(h) ==
    /\ ~Is(h, "closed")
    /\ stream' = [stream EXCEPT ![h] = Closed]
    /\ pieces' = [pieces EXCEPT ![h] = <<>>]
    /\ Input /\ Variables
    /\ UNCHANGED <<content, halted, saved>>

file_close(h) ==
    /\ ~Is(h, "closed")
    /\ content' = Flushed({h})
    /\ stream' = [stream EXCEPT ![h] = Closed]
    /\ pieces' = [pieces EXCEPT ![h] = <<>>]
    /\ Input /\ Variables
    /\ UNCHANGED <<halted, saved>>

(* fputs: the text waits in the stream, or all of it goes to the file.     *)
file_write(h, text) ==
    /\ Is(h, "writer") \/ Is(h, "null")
    /\ IF Is(h, "null") THEN UNCHANGED <<content, stream, saved>>
       ELSE LET f == stream[h].file  longer == stream[h].waiting \o text IN
            /\ Len(IF stream[h].linked THEN saved[f] \o text ELSE longer) <= MaxText
            /\ saved' = IF stream[h].linked THEN [saved EXCEPT ![f] = @ \o text] ELSE saved
            /\ \/ /\ stream' = [stream EXCEPT ![h].waiting = longer]
                  /\ UNCHANGED content
               \/ /\ stream' = [stream EXCEPT ![h].waiting = <<>>]
                  /\ content' = IF stream[h].linked THEN [content EXCEPT ![f] = @ \o longer] ELSE content
    /\ Input /\ Variables
    /\ UNCHANGED <<halted, pieces>>

(* A file loses its name; streams open on it go on.                        *)
file_remove(f) ==
    /\ content[f] # None
    /\ content' = [content EXCEPT ![f] = None]
    /\ saved' = [saved EXCEPT ![f] = None]
    /\ stream' = [h \in Handles |->
                     IF Is(h, "writer") /\ stream[h].file = f THEN [stream[h] EXCEPT !.linked = FALSE]
                     ELSE IF Is(h, "reader") /\ stream[h].file = f /\ stream[h].text = None
                          THEN [stream[h] EXCEPT !.text = content[f]]
                     ELSE stream[h]]
    /\ Input /\ Variables
    /\ UNCHANGED <<halted, pieces>>

(* feof, and for NULL the end.                                             *)
(* Mutant: NULL has not ended.                                             *)
rt_file_ended_not(h) == Is(h, "reader") /\ stream[h].eof

rt_file_ended(h) == Is(h, "null") \/ (Is(h, "reader") /\ stream[h].eof)

Snapshot(h) == IF stream[h].text = None THEN content[stream[h].file] ELSE stream[h].text
Rest(h)     == SubSeq(Snapshot(h), stream[h].pos + 1, Len(Snapshot(h)))

(***************************************************************************)
(* A call whose result points somewhere gives it to the variable v, or     *)
(* drops it (v = None).  If it has filled a buffer, other variables that   *)
(* point there no longer have what they were given.                        *)
(***************************************************************************)
Returns(v, pointer, text, filled) ==
    LET lost(u) == ~fresh[u] \/ var[u] \in filled IN
    /\ var' = [u \in Vars |-> IF u = v THEN pointer ELSE var[u]]
    /\ meant' = [u \in Vars |-> IF u = v THEN text ELSE IF lost(u) THEN <<>> ELSE meant[u]]
    /\ fresh' = [u \in Vars |-> u = v \/ ~lost(u)]

(* Pieces of one read after another; repeated empty ones count once.       *)
Noted(h, text) ==
    IF text = <<>> /\ pieces[h] # <<>> /\ Last(pieces[h]) = <<>> THEN pieces
    ELSE [pieces EXCEPT ![h] = Append(@, text)]

(* Mutant: the newline is dropped, as rt_in_line does.                     *)
LineOfFileBare(read) == IF read # <<>> /\ Last(read) = NL THEN Front(read) ELSE read

LineOfFile(read) == read

(* Neither the buffer's end nor a newline has stopped fgets: it looks      *)
(* behind the last character it has taken.                                 *)
Short(read) == Len(read) < BufSize - 1 /\ (read # <<>> => Last(read) # NL)

(* No file, or nothing left of it.                                         *)
ReadsNothing(h, v) ==
    /\ Is(h, "reader") => Rest(h) = <<>>
    /\ Returns(v, Own(<<>>), <<>>, {})
    /\ stream' = IF Is(h, "null") THEN stream
                 ELSE [stream EXCEPT ![h].text = Snapshot(h), ![h].eof = TRUE]
    /\ pieces' = Noted(h, <<>>)
    /\ UNCHANGED file_buf

ReadsLine(h, v) ==
    /\ Is(h, "reader") /\ Rest(h) # <<>>
    /\ LET read == fgets(Rest(h)) IN
       /\ file_buf' = LineOfFile(read)
       /\ Returns(v, FileBuf, LineOfFile(read), {FileBuf})
       /\ stream' = [stream EXCEPT ![h].text = Snapshot(h), ![h].pos = @ + Len(read), ![h].eof = Short(read)]
       /\ pieces' = Noted(h, LineOfFile(read))

(* What the buffer holds when fgets has copied to it and then fails, which *)
(* leaves the copy without a terminator: older bytes follow.               *)
Overwritten(read) ==
    IF Len(read) <= Len(file_buf) THEN {read \o SubSeq(file_buf, Len(read) + 1, Len(file_buf))}
    ELSE {read \o [k \in 1..n |-> Stale] : n \in 0..(BufSize - 1 - Len(read))}

(* The system reports an error, as it does for a directory: the first time *)
(* it is asked, or when fgets looks behind what the stream holds, and then *)
(* what fgets has copied is lost.  feof stays 0, and nobody asks ferror.   *)
ReadFails(h, v) ==
    /\ Is(h, "reader") /\ ~stream[h].eof
    /\ pieces' = Noted(h, <<>>)
    /\ \/ /\ stream[h].text = None
          /\ stream' = [stream EXCEPT ![h].error = TRUE]
          /\ Returns(v, Own(<<>>), <<>>, {})
          /\ UNCHANGED file_buf
       \/ /\ Snapshot(h) # <<>>
          /\ LET read == fgets(Rest(h)) IN
             /\ Short(read)
             /\ stream' = [stream EXCEPT ![h].text = Snapshot(h), ![h].pos = @ + Len(read), ![h].error = TRUE]
             /\ Returns(v, Own(<<>>), <<>>, IF read = <<>> THEN {} ELSE {FileBuf})
             /\ file_buf' \in Overwritten(read)

file_read_line(h, v) ==
    /\ Is(h, "reader") \/ Is(h, "null")
    /\ Input
    /\ UNCHANGED <<content, halted, saved>>
    /\ ReadsNothing(h, v) \/ ReadsLine(h, v) \/ ReadFails(h, v)

(***************************************************************************)
(* Input.  Nothing tells the program that there is no more.                *)
(***************************************************************************)
Behind(n) == SubSeq(stdin, n + 1, Len(stdin))

(* Mutant: the last character goes, newline or not.                        *)
LineOfInputShort(read) == IF read # <<>> THEN Front(read) ELSE read

LineOfInput(read) == IF read # <<>> /\ Last(read) = NL THEN Front(read) ELSE read

(* Mutant: one buffer for all lines.                                       *)
ask_line_shared(v) ==
    /\ stdin # <<>>
    /\ LET read == fgets(stdin) IN
       /\ file_buf' = LineOfInput(read)
       /\ Returns(v, FileBuf, LineOfInput(read), {InBuf})
       /\ asked' = asked \o LineOfInput(read)
       /\ stdin' = Behind(Len(read))
    /\ Streams
    /\ UNCHANGED <<halted, in_buf, input>>

ask_line(v) ==
    /\ IF stdin = <<>>
       THEN /\ Returns(v, Own(<<>>), <<>>, {})
            /\ UNCHANGED <<in_buf, asked, stdin>>
       ELSE LET read == fgets(stdin) IN
            /\ in_buf' = LineOfInput(read)
            /\ Returns(v, InBuf, LineOfInput(read), {InBuf})
            /\ asked' = asked \o LineOfInput(read)
            /\ stdin' = Behind(Len(read))
    /\ Streams
    /\ UNCHANGED <<halted, file_buf, input>>

(* The digits that a text begins with.                                     *)
number(s) ==
    LET end == SelectInSeq(s, LAMBDA c : c \notin Digits) IN
    IF end = 0 THEN s ELSE SubSeq(s, 1, end - 1)

(* The blanks a text begins with, and the sign behind them.                *)
blanks(s) ==
    LET end == SelectInSeq(s, LAMBDA c : c \notin Blanks) IN
    IF end = 0 THEN Len(s) ELSE end - 1

signed(s) == IF blanks(s) < Len(s) /\ s[blanks(s) + 1] \in Signs THEN blanks(s) + 1 ELSE blanks(s)

(* scanf("%d") takes blanks, a sign and digits.  Where there is no digit   *)
(* the blanks and the sign are gone all the same, and what follows stays.  *)
ask_int ==
    /\ LET digits == number(Behind(signed(stdin)))
           taken  == signed(stdin) + Len(digits)
       IN  /\ asked' = IF digits = <<>> THEN asked ELSE asked \o SubSeq(stdin, blanks(stdin) + 1, taken)
           /\ stdin' = Behind(taken)
    /\ Streams /\ Variables
    /\ UNCHANGED <<halted, in_buf, input>>

(***************************************************************************)
(* Texts.  Memory may run out, which makes the result "".                  *)
(***************************************************************************)
(* Mutant: the end is not cut to the length.                               *)
rt_text_slice_far(s, start, end) ==
    LET from == IF start < 0 THEN 0 ELSE start
        to   == IF end < from THEN from ELSE end
    IN  [k \in 1..(to - from) |-> IF from + k \in DOMAIN s THEN s[from + k] ELSE "?"]

rt_text_slice(s, start, end) ==
    LET from == IF start < 0 THEN 0 ELSE start
        last == IF end > Len(s) THEN Len(s) ELSE end
        to   == IF last < from THEN from ELSE last
    IN  [k \in 1..(to - from) |-> s[from + k]]

NewText(u, text) ==
    /\ Len(text) <= MaxMade
    /\ \E made \in {text, <<>>} : Returns(u, Own(made), made, {})
    /\ Streams /\ Input
    /\ UNCHANGED <<halted, file_buf>>

join(u, v, w) == NewText(u, Chars(v) \o Chars(w))
str_slice(u, v, i, j) == NewText(u, rt_text_slice(Chars(v), i, j))

(* exit flushes and closes every stream.                                   *)
halt ==
    /\ halted' = TRUE
    /\ content' = Flushed(Handles)
    /\ stream' = [h \in Handles |-> Closed]
    /\ pieces' = [h \in Handles |-> <<>>]
    /\ Input /\ Variables
    /\ UNCHANGED saved

Call ==
    \/ \E h \in Handles, f \in Files, mode \in {"r", "w"} : file_open(h, f, mode)
    \/ \E h \in Handles : file_close(h)
    \/ \E h \in Handles, text \in Writes : file_write(h, text)
    \/ \E f \in Files : file_remove(f)
    \/ \E h \in Handles, v \in Vars \cup {None} : file_read_line(h, v)
    \/ \E v \in Vars \cup {None} : ask_line(v)
    \/ ask_int
    \/ \E u, v, w \in Vars : join(u, v, w)
    \/ \E u, v \in Vars, p \in Slices : str_slice(u, v, p[1], p[2])
    \/ halt

Next == ~halted /\ Call

Spec == Init /\ [][Next]_vars

(* A program that reads a handle until it has ended goes on reading.       *)
Loop == ~halted /\ ~rt_file_ended(Looped) /\ file_read_line(Looped, None)
Fairness == WF_stream(Loop)
FairSpec == Spec /\ Fairness
-------------------------------------------------------------------------------
(* README: "read one line as str".  The reads of a handle none of whose    *)
(* reads has failed return the whole file as it was, in order, each a line *)
(* with its newline or, of a longer one, as much as the buffer holds; ""   *)
(* comes at the end only, and the end is reported only there.              *)
LinesMakeTheFile ==
    \A h \in Handles :
        Is(h, "reader") /\ stream[h].text # None /\ ~stream[h].error =>
            LET text == stream[h].text  got == pieces[h] IN
            /\ FlattenSeq(got) = SubSeq(text, 1, stream[h].pos)
            /\ \A k \in DOMAIN got :
                  \/ got[k] # <<>> /\ (Last(got[k]) = NL \/ Len(got[k]) = BufSize - 1)
                  \/ FlattenSeq(SubSeq(got, 1, k)) = text
            /\ stream[h].eof => FlattenSeq(got) = text

(* A str keeps the text it was given: one from join or str_slice for good, *)
(* a line of a file until the next line of a file is read, or fails to be, *)
(* a line of input until the next line of input.                           *)
TextsStay == \A v \in Vars : fresh[v] => Chars(v) = meant[v]

(* What was written is in the file when it is closed, in order and whole,  *)
(* and when the program halts with the file still open.                    *)
ClosedIsSaved ==
    \A f \in Files :
        (halted \/ \A h \in Handles : Is(h, "writer") /\ stream[h].linked => stream[h].file # f)
            => content[f] = saved[f]

(* What a read of the input may drop: a blank, or a sign that no digit     *)
(* follows.                                                                *)
Droppable ==
    {p \in DOMAIN input :
        \/ input[p] \in Blanks
        \/ input[p] \in Signs /\ (p = Len(input) \/ input[p + 1] \notin Digits)}

(* ask_line and ask_int, called in any order, lose nothing else of the     *)
(* input: for some lost characters that may be, the n-th character kept is *)
(* the n-th that was asked.                                                *)
NothingUnasked ==
    \E lost \in SUBSET Droppable :
        LET kept(n) == (1..n) \ lost  read == Len(input) - Len(stdin) IN
        /\ Len(asked) = Cardinality(kept(read))
        /\ \A p \in kept(read) : asked[Cardinality(kept(p))] = input[p]

(* README: str_slice is "substring [start, end)".  It is, for positions in *)
(* the text; beyond them it takes what there is, and nothing from outside. *)
SliceDocumented ==
    \A v \in Vars : \A i, j \in (-1)..(MaxText + 1) :
        LET s == Chars(v)
            within == {k \in 1..Len(s) : i < k /\ k <= j}
        IN  /\ Len(rt_text_slice(s, i, j)) = Cardinality(within)
            /\ \A k \in within : rt_text_slice(s, i, j)[k - (IF i < 0 THEN 0 ELSE i)] = s[k]

(* A loop that reads a handle until file_ended ends, also when the file    *)
(* could not be opened, unless a read of it fails: file_ended tells        *)
(* nothing of that, and a loop over a directory goes on for good.          *)
Failed(h) == Is(h, "reader") /\ stream[h].error

LoopsEnd ==
    (Is(Looped, "reader") \/ Is(Looped, "null"))
        ~> (rt_file_ended(Looped) \/ Is(Looped, "closed") \/ Failed(Looped))
===============================================================================
