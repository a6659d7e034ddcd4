--------------------------- MODULE TestDataReader ---------------------------
(***************************************************************************)
(* The reader of datadriven test files                                      *)
(* (src/datadriven/src/test_data_reader.rs, TestDataReader::next and      *)
(* read_expected).                                                         *)
(*                                                                         *)
(* A file is a sequence of lines, each an abstract token: "d" a directive, *)
(* "subtest" the subtest directive, "#" a comment, "" a blank line, "----" *)
(* the separator, "a" and "b" lines of input or expected output.  None has *)
(* surrounding white space, so trim leaves each line as it is.  The reader *)
(* builds input and expected output by push_str of lines with nothing     *)
(* between them; pushing a line is appending its token, pushing "" is      *)
(* nothing, and since no token is the concatenation of others two pushed   *)
(* sequences are equal exactly when the strings are.                       *)
(*                                                                         *)
(* parse_line (line_sparser, not in this repository) is taken to return a *)
(* one-word line as the command with no arguments, and "" for a blank      *)
(* line.  Continuation lines ending in '\' are not modelled: what the      *)
(* joined line parses to is parse_line's business.                         *)
(*                                                                         *)
(* The file under test is built from a list of test cases by Render, the  *)
(* layout the reader's own branches expect: a blank line closes an         *)
(* expected block, "----" "----" and a blank line close a block opened by *)
(* a second "----".  Shapes says which layouts are rendered.              *)
(***************************************************************************)
EXTENDS Naturals, Sequences, SequencesExt

CONSTANTS
  Shapes,    \* layouts of test cases rendered into files
  MaxCases,  \* bound on the test cases in a file
  MaxLines   \* bound on the input and expected lines of a test case

Token == {"d", "subtest", "#", "", "----", "a", "b"}

\* struct TestData, without pos (the "file:line" string of the directive).
TestData == [cmd : Token, input : Seq(Token), expected : Seq(Token)]
Default == [cmd |-> "", input |-> <<>>, expected |-> <<>>]

\* String::push_str of a line onto a string held as its non-empty lines.
Push(s, line) == IF line = "" THEN s ELSE Append(s, line)

\* push_str of every line of a sequence, in order.
PushAll(s, lines) == FoldLeft(Push, s, lines)

-----------------------------------------------------------------------------
(* The reader, as operators over the file f and the number p of lines    *)
(* LineScanner has returned so far: f[p + 1] is what scan() returns next, *)
(* None when p = Len(f).  A result is the number of lines consumed, the   *)
(* TestData, the bool next returns, and whether an expect or assert       *)
(* panicked.                                                               *)

Result(p, d, res) == [pos |-> p, data |-> d, res |-> res, panic |-> FALSE]
Panic == [pos |-> 0, data |-> Default, res |-> FALSE, panic |-> TRUE]

\* The loop of read_expected after "----" "----": lines are pushed until
\* "----" "----" and an empty line; a "----" followed by another line
\* pushes that line and then the "----".  Every scan is expect()ed.
RECURSIVE double_block(_, _, _)
double_block(f, p, d) ==
  IF p >= Len(f) THEN Panic
  ELSE IF f[p + 1] # "----"
  THEN double_block(f, p + 1, [d EXCEPT !.expected = Push(@, f[p + 1])])
  ELSE IF p + 1 >= Len(f) THEN Panic
  ELSE IF f[p + 2] = "----"
  THEN IF p + 2 >= Len(f) \/ f[p + 3] # "" THEN Panic
       ELSE Result(p + 3, d, TRUE)
  ELSE double_block(f, p + 2,
         [d EXCEPT !.expected = Push(Push(@, f[p + 2]), "----")])

\* The loop of read_expected's else branch: lines are pushed until an
\* empty one, which is consumed; every scan is expect()ed.
RECURSIVE single_block(_, _, _)
single_block(f, p, d) ==
  IF p >= Len(f) THEN Panic
  ELSE IF f[p + 1] = "" THEN Result(p + 1, d, TRUE)
  ELSE single_block(f, p + 1, [d EXCEPT !.expected = Push(@, f[p + 1])])

read_expected_skip_first(f, p, d) ==
  IF p >= Len(f) THEN Result(p, d, TRUE)
  ELSE IF f[p + 1] = "----" THEN double_block(f, p + 1, d)
  ELSE single_block(f, p + 1, d)

\* read_expected, called with p just past the "----": the first line is
\* pushed whatever it is, and decides the branch.
read_expected(f, p, d) ==
  IF p >= Len(f) THEN Result(p, d, TRUE)
  ELSE LET d1 == [d EXCEPT !.expected = Push(@, f[p + 1])] IN
       IF f[p + 1] = "----" THEN double_block(f, p + 1, d1)
       ELSE single_block(f, p + 1, d1)

\* The first line at or after p + 1 that is "----", Len(f) + 1 if none:
\* the end of the input lines.
SeparatorAfter(f, p) ==
  LET i == SelectInSubSeq(f, p + 1, Len(f), LAMBDA l : l = "----")
  IN  IF i = 0 THEN Len(f) + 1 ELSE i

\* next(): comment and blank lines are skipped; a subtest directive is a
\* test case by itself; any other directive collects input lines up to
\* "----" (or the end of the file) and then reads the expected block.
\* At the end of the file next returns false and leaves data as it was.
RECURSIVE next(_, _, _)
next(f, p, data) ==
  IF p >= Len(f) THEN Result(p, data, FALSE)
  ELSE LET line == f[p + 1] IN
  IF line \in {"#", ""} THEN next(f, p + 1, Default)
  ELSE IF line = "subtest"
  THEN Result(p + 1, [Default EXCEPT !.cmd = line], TRUE)
  ELSE LET s == SeparatorAfter(f, p + 1)
           d == [Default EXCEPT !.cmd = line,
                                !.input = PushAll(<<>>, SubSeq(f, p + 2, s - 1))]
       IN  IF s > Len(f) THEN Result(Len(f), d, TRUE)
           ELSE read_expected(f, s, d)

-----------------------------------------------------------------------------
(* The reference layout of test cases.                                     *)

\* A test case: the comment or blank line before it, if any, a command,
\* its input lines and its expected lines, and the layout it is written in.
Lead == {<<>>, <<"#">>, <<"">>}

Case ==
  {[lead |-> l, cmd |-> "subtest", input |-> <<>>, expected |-> <<>>,
    shape |-> "subtest"] : l \in Lead}
  \cup
  {[lead |-> l, cmd |-> "d", input |-> i, expected |-> e, shape |-> s] :
     l \in Lead,
     i \in BoundedSeq({"a"}, 1),
     e \in BoundedSeq({"a", "b", "", "----"}, MaxLines),
     s \in Shapes \ {"subtest"}}

\* Which cases are written correctly in their layout: a single block has
\* non-empty lines, at least one; an empty block has none; a block read to
\* the end of the file has non-empty lines; a double block may hold blank
\* and "----" lines but not "----" twice in a row.
WellFormed(c) ==
  CASE c.shape = "subtest" -> TRUE
    [] c.shape = "single"  -> c.expected # <<>> /\ \A k \in 1..Len(c.expected) :
                                 c.expected[k] \in {"a", "b"}
    [] c.shape = "empty"   -> c.expected = <<>>
    [] c.shape = "eof"     -> \A k \in 1..Len(c.expected) :
                                 c.expected[k] \in {"a", "b"}
    [] c.shape = "double"  -> \A k \in 1..Len(c.expected) - 1 :
                                 ~(c.expected[k] = "----" /\ c.expected[k + 1] = "----")

\* The lines of a case.  Only the last case of a file may be "eof".
Render(c) == c.lead \o
  CASE c.shape = "subtest" -> <<"subtest">>
    [] c.shape = "double"  -> <<c.cmd>> \o c.input \o <<"----", "----">>
                              \o c.expected \o <<"----", "----", "">>
    [] c.shape = "eof"     -> <<c.cmd>> \o c.input \o <<"----">> \o c.expected
    [] OTHER               -> <<c.cmd>> \o c.input \o <<"----">>
                              \o c.expected \o <<"">>

\* What the reader should hand back for a case.
Expect(c) ==
  [cmd |-> c.cmd, input |-> c.input, expected |-> PushAll(<<>>, c.expected)]

Files ==
  {cs \in BoundedSeq({c \in Case : WellFormed(c)}, MaxCases) :
     \A k \in 1..Len(cs) - 1 : cs[k].shape # "eof"}

-----------------------------------------------------------------------------
(* A test run: the file is rendered from the cases, then next() is called *)
(* until it returns false, as the datadriven runner's loop does.           *)

VARIABLES
  cases,     \* the test cases the file was written from
  file,      \* the file's lines
  pos,       \* lines LineScanner has returned
  data,      \* the reader's TestData
  ret,       \* what the last next() returned
  got,       \* the test cases read so far
  panicked   \* an expect or assert of the reader panicked

vars == <<cases, file, pos, data, ret, got, panicked>>

\* TestDataReader::new over the rendered file.
Init ==
  /\ cases \in Files
  /\ file = FoldLeft(LAMBDA acc, c : acc \o Render(c), <<>>, cases)
  /\ pos = 0
  /\ data = Default
  /\ ret = TRUE
  /\ got = <<>>
  /\ panicked = FALSE

\* One call of next(), read_expected included.
CallNext ==
  /\ ret /\ ~panicked
  /\ LET r == next(file, pos, data) IN
     /\ panicked' = r.panic
     /\ pos' = r.pos
     /\ data' = r.data
     /\ ret' = r.res
     /\ got' = IF r.res THEN Append(got, r.data) ELSE got
  /\ UNCHANGED <<cases, file>>

Next == CallNext

Spec == Init /\ [][Next]_vars

-----------------------------------------------------------------------------
\* Reading a file written from test cases hands them back, each with its
\* command, input and expected output, in file order, and the reader never
\* panics: once next() has returned false, every case has been read.
ReadsBackCases ==
  /\ ~panicked
  /\ Len(got) <= Len(cases)
  /\ \A k \in 1..Len(got) : got[k] = Expect(cases[k])
  /\ ~ret => Len(got) = Len(cases)
====
