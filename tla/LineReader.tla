----------------------------- MODULE LineReader -----------------------------
(***************************************************************************)
(* geekCpp/line_istream.h, istream_line_reader: the lines of a stream as   *)
(* an input range.  All iterators share the stream; one that finds nothing *)
(* more drops its pointer to it and so equals end().  Characters are TRUE  *)
(* for '\n' and FALSE for any other.                                       *)
(***************************************************************************)
EXTENDS Integers, Sequences, FiniteSets

CONSTANTS Iterators,
          MaxText  \* bound: characters in the stream

ReaderAssumption == MaxText \in Nat

VARIABLES
  text,   \* what the stream holds
  next,   \* how many characters were taken
  eof, fail,
  line,   \* _M_line of each iterator, as first and last position
  open,   \* the iterators with _M_stream # nullptr
  lines   \* history: the lines that an iterator was moved to

vars == <<text, next, eof, fail, line, open, lines>>

Texts == UNION {[1..n -> BOOLEAN] : n \in 0..MaxText}

Init ==
  /\ text \in Texts
  /\ next = 0
  /\ eof = FALSE /\ fail = FALSE
  /\ line = [i \in Iterators |-> <<1, 0>>]
  /\ open = {} /\ lines = <<>>

(* std::getline, from the next character on: where the line ends, and what *)
(* becomes of the stream.  It fails where no character is left.            *)
Newlines == {i \in (next + 1)..Len(text) : text[i]}
FirstNewline == CHOOSE i \in Newlines : \A j \in Newlines : i <= j
LineEnd == IF Newlines = {} THEN Len(text) ELSE FirstNewline - 1
Fails == eof \/ next = Len(text)
getline ==
  /\ next' = IF Newlines = {} THEN Len(text) ELSE FirstNewline
  /\ eof' = (eof \/ Newlines = {})
  /\ fail' = Fails
  /\ UNCHANGED text

AdvanceWhileGood(i) ==  \* fault: end of file is taken for the end of the lines
  /\ getline
  /\ IF eof'
     THEN open' = open \ {i} /\ UNCHANGED <<line, lines>>
     ELSE /\ open' = open \cup {i}
          /\ line' = [line EXCEPT ![i] = <<next + 1, LineEnd>>]
          /\ lines' = Append(lines, line'[i])
(* operator++, for an iterator whose _M_stream is the stream *)
Advance(i) ==
  /\ getline
  /\ IF fail'
     THEN open' = open \ {i} /\ UNCHANGED <<line, lines>>
     ELSE /\ open' = open \cup {i}
          /\ line' = [line EXCEPT ![i] = <<next + 1, LineEnd>>]
          /\ lines' = Append(lines, line'[i])

(* begin() throws on a stream that failed, and else takes a line. *)
Begin(i) == ~fail /\ Advance(i)

Increment(i) == i \in open /\ Advance(i)

(* Copying an iterator copies its line. *)
Copy(i, j) ==
  /\ i # j
  /\ line' = [line EXCEPT ![j] = line[i]]
  /\ open' = IF i \in open THEN open \cup {j} ELSE open \ {j}
  /\ UNCHANGED <<text, next, eof, fail, lines>>

Next ==
  \E i \in Iterators : \/ Begin(i) \/ Increment(i)
                       \/ \E j \in Iterators : Copy(i, j)

Spec == Init /\ [][Next]_vars

AllLines ==
  {l \in (1..Len(text)) \X (0..Len(text)) :
     /\ l[1] <= l[2] + 1
     /\ l[1] = 1 \/ text[l[1] - 1]
     /\ \A k \in l[1]..l[2] : ~text[k]
     /\ l[2] = Len(text) \/ text[l[2] + 1]}

(* Whatever iterators are copied and moved in whatever order, every line   *)
(* comes out once and in order, also an empty one and a last one without a *)
(* newline; and when the stream has failed, all have.                      *)
LinesDelivered ==
  /\ \A k \in 1..Len(lines) : lines[k] \in AllLines
  /\ \A j, k \in 1..Len(lines) : j < k => lines[j][1] < lines[k][1]
  /\ \A i \in open : line[i] \in AllLines
  /\ fail => Len(lines) = Cardinality(AllLines)
=============================================================================
