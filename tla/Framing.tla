------------------------------ MODULE Framing ------------------------------
(***************************************************************************)
(* How a stream of bytes from the dashboard is cut into commands           *)
(* (Command::parse, src/incoming.rs, called in a loop by handle_client).   *)
(* Only braces, quotes and backslashes matter for the cut; every other     *)
(* byte is "other".  One step is one byte of the stream.                   *)
(***************************************************************************)
EXTENDS Naturals, Sequences, FiniteSetsExt

CONSTANTS
  MaxBytes,    \* bound: bytes the dashboard sends
  MaxErrors    \* bound: I/O errors other than end of file or reset

ASSUME BoundsAssumption == MaxBytes \in Nat /\ MaxErrors \in Nat

Byte == {"open", "close", "quote", "backslash", "other"}

VARIABLES
  depth, in_string, escaped,   \* the locals of parse
  start,     \* where the bytes in buffer begin
  errors     \* I/O errors so far (for the bound)

\* History variables: no action reads more of them than their length.
VARIABLES
  input,     \* every byte that was read
  results    \* what the calls of parse returned, by the bytes they stand for

vars == <<depth, in_string, escaped, start, errors, input, results>>

\* "object" is given to serde_json, which may find it to be no command.
Result == [first : 1 .. MaxBytes, last : 1 .. MaxBytes, kind : {"object", "malformed"}]

TypeOK ==
  /\ depth \in 0 .. MaxBytes
  /\ in_string \in BOOLEAN
  /\ escaped \in BOOLEAN
  /\ start \in 1 .. MaxBytes + 1
  /\ errors \in 0 .. MaxErrors
  /\ input \in Seq(Byte)
  /\ results \in Seq(Result)

Init ==
  /\ depth = 0
  /\ in_string = FALSE
  /\ escaped = FALSE
  /\ start = 1
  /\ errors = 0
  /\ input = <<>>
  /\ results = <<>>

-----------------------------------------------------------------------------
\* The locals as a new call of parse finds them, next byte at position first.
NewCall(first) ==
  /\ depth' = 0
  /\ in_string' = FALSE
  /\ escaped' = FALSE
  /\ start' = first

Read(c) ==
  /\ Len(input) < MaxBytes
  /\ input' = Append(input, c)
  /\ UNCHANGED errors

Returns(kind) ==
  /\ results' = Append(results,
                       [first |-> start, last |-> Len(input) + 1, kind |-> kind])
  /\ NewCall(Len(input) + 2)

Structural == ~ in_string

DepthAfter(c) ==
  IF ~ Structural THEN depth
  ELSE IF c = "open" THEN depth + 1
  ELSE IF c = "close" THEN depth - 1
  ELSE depth

\* A closing brace that closes nothing.
StrayClose ==
  /\ Read("close")
  /\ Structural
  /\ depth = 0
  /\ Returns("malformed")

\* The closing brace of the outermost object.
LastClose ==
  /\ Read("close")
  /\ Structural
  /\ depth = 1
  /\ Returns("object")

\* Mutant: after two backslashes a quote still counts as escaped.
ReadOnBackslashes(c) ==
  /\ Read(c)
  /\ ~ (c = "close" /\ Structural /\ depth \in {0, 1})
  /\ depth' = DepthAfter(c)
  /\ in_string' = IF c = "quote" /\ ~ escaped THEN ~ in_string ELSE in_string
  /\ escaped' = (c = "backslash")
  /\ UNCHANGED <<start, results>>

\* Mutant: no check for a closing brace at depth 0.
ReadOnUnderflow(c) ==
  /\ Read(c)
  /\ ~ (c = "close" /\ Structural /\ depth = 1)
  /\ depth' = DepthAfter(c)
  /\ in_string' = IF c = "quote" /\ ~ escaped THEN ~ in_string ELSE in_string
  /\ escaped' = (c = "backslash" /\ ~ escaped)
  /\ UNCHANGED <<start, results>>

\* Any other byte, and a closing brace further in.
ReadOn(c) ==
  /\ Read(c)
  /\ ~ (c = "close" /\ Structural /\ depth \in {0, 1})
  /\ depth' = DepthAfter(c)
  /\ in_string' = IF c = "quote" /\ ~ escaped THEN ~ in_string ELSE in_string
  /\ escaped' = (c = "backslash" /\ ~ escaped)
  /\ UNCHANGED <<start, results>>

\* An error that handle_client only logs: the next call starts with an empty
\* buffer in the middle of the message.  (End of file ends the conversation.)
ReadError ==
  /\ errors < MaxErrors
  /\ errors' = errors + 1
  /\ NewCall(Len(input) + 1)
  /\ UNCHANGED <<input, results>>

Next == StrayClose \/ LastClose \/ ReadError \/ \E c \in Byte : ReadOn(c)

Spec == Init /\ [][Next]_vars

-----------------------------------------------------------------------------
\* The cut, stated of a whole stream s instead of byte by byte.  A text begins
\* at position a of s.

\* Byte i follows an odd number of backslashes.
Escaped(s, a, i) ==
  \E k \in a .. i - 1 :
    /\ (i - k) % 2 = 1
    /\ \A j \in k .. i - 1 : s[j] = "backslash"
    /\ k > a => s[k - 1] # "backslash"

\* Byte i follows an odd number of quotes that are not escaped.
InString(s, a, i) ==
  Quantify(a .. i - 1, LAMBDA j : s[j] = "quote" /\ ~ Escaped(s, a, j)) % 2 = 1

Count(s, a, i, brace) ==
  Quantify(a .. i, LAMBDA j : s[j] = brace /\ ~ InString(s, a, j))

\* Byte i closes the outermost object, or nothing at all.
Ends(s, a, i) ==
  /\ s[i] = "close" /\ ~ InString(s, a, i)
  /\ Count(s, a, i, "close") >= Count(s, a, i, "open")

\* Result r ends at the first byte at which its text can end, and is an object
\* exactly if its braces are balanced there.
RightCut(s, r) ==
  /\ Ends(s, r.first, r.last)
  /\ \A i \in r.first .. r.last - 1 : ~ Ends(s, r.first, i)
  /\ r.kind = "object" <=>
       Count(s, r.first, r.last, "close") = Count(s, r.first, r.last, "open")

\* Every result is cut where it should be, and no end was passed over in the
\* bytes still buffered (parse: braces in strings, escaped quotes and escaped
\* backslashes do not confuse it).
CutsAtFirstEnd ==
  /\ \A k \in DOMAIN results : RightCut(input, results[k])
  /\ \A i \in start .. Len(input) : ~ Ends(input, start, i)
=============================================================================
