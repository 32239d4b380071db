------------------------------ MODULE ScanHTTP ------------------------------
(***************************************************************************)
(* How the Apache module reads the head of an instance's response          *)
(* (mod_ngobjweb/scanhttp.c).  The stream is a sequence of characters; a   *)
(* run of characters nothing tells apart ("200", a name, a word) is one    *)
(* character here, and the sizes of the scanner's arrays shrink with it.   *)
(* The end of the sequence is the end of the stream, where readChar        *)
(* answers -1.                                                             *)
(***************************************************************************)
EXTENDS Integers, Sequences

CONSTANTS
    Char,           \* the characters
    MaxVersion,     \* characters kept of the version (16)
    MaxWord,        \* characters kept of status code and reason (6)
    MaxName,        \* characters of a header name (255)
    MaxValue        \* characters of a header value (7999)

ASSUME ScanLimits == {MaxVersion, MaxWord, MaxName, MaxValue} \subseteq Nat \ {0}

SPACE == "SP"
CR == "CR"
LF == "LF"
COLON == ":"
spaces == {SPACE, CR, LF}

ASSUME CharAssumption == {SPACE, CR, LF, COLON} \subseteq Char

\* The loops of the scanner, as functions of the offset they begin at: the
\* offset at which the run of characters in (or not in) C ends, after max
\* characters at most.
spanEnd(s, C, max) ==
    [at \in 0..Len(s) |-> CHOOSE end \in at..Len(s) :
        /\ end - at <= max /\ \A k \in (at + 1)..end : s[k] \in C
        /\ end - at = max \/ end = Len(s) \/ s[end + 1] \notin C]

spanUntil(s, C, max) ==
    [at \in 0..Len(s) |-> CHOOSE end \in at..Len(s) :
        /\ end - at <= max /\ \A k \in (at + 1)..end : s[k] \notin C
        /\ end - at = max \/ end = Len(s) \/ s[end + 1] \in C]

skipSpaces(s) == spanEnd(s, spaces, Len(s))

text(s, from, to) == SubSeq(s, from + 1, to)

\* readChar finds a character behind the first at ones ...
more(s, at) == at < Len(s)

\* ... and it is c.
nextIs(s, at, c) == more(s, at) /\ s[at + 1] = c

\* Mutant: a value that ends with the stream counts.
lineEndOrEnd(s, at) == more(s, at) => s[at + 1] = LF

lineEnd(s, at) == nextIs(s, at, LF)

\* Mutant: CR ends the status line.
anyEOL == {CR, LF}

endOfLine == {LF}
endOfName == {COLON}
endOfValue == {CR}

\* NGScanResponseLine: what it returns, the status, and the characters it took.
\* The end of line behind the status code is skipped with the spaces, so a
\* line without a reason takes the line that follows it for the reason.
NGScanResponseLine(s) ==
    LET code == skipSpaces(s)[spanUntil(s, spaces, MaxVersion)[0]]
        codeEnd == spanUntil(s, spaces, MaxWord)[code]
        reasonEnd == spanUntil(s, spaces, MaxWord)[skipSpaces(s)[codeEnd]]
        eol == spanUntil(s, endOfLine, Len(s))[reasonEnd]
    IN [ok |-> more(s, eol), status |-> text(s, code, codeEnd), at |-> eol + 1]

\* One turn of the loop of NGScanHeaders: the header it stores, if any, the
\* characters taken so far, and whether it asked for one behind the last.  Only
\* CR ends a value (LF where the array is full).
ScanHeader(s, at) ==
    LET colon == spanUntil(s, endOfName, MaxName)[at]
        value == skipSpaces(s)[colon + 1]
        end == spanUntil(s, endOfValue, MaxValue)[value]
        stop(n) == [stored |-> FALSE, name |-> << >>, value |-> << >>,
                    at |-> IF n <= Len(s) THEN n ELSE Len(s), short |-> n > Len(s)]
        store(n) == [stored |-> TRUE, name |-> text(s, at, colon),
                     value |-> text(s, value, end), at |-> n, short |-> FALSE]
    IN  CASE ~more(s, at) -> stop(at + 1)
          [] nextIs(s, at, LF) -> stop(at + 1)
          [] nextIs(s, at, CR) -> stop(at + 2)
          [] OTHER ->
             IF colon = at \/ ~nextIs(s, colon, COLON) THEN stop(colon + 1)
             ELSE IF end = value THEN stop(end + 1)
             ELSE IF lineEnd(s, end) THEN store(end + 1)
             ELSE IF ~nextIs(s, end, CR) THEN stop(end + 1)
             ELSE IF lineEnd(s, end + 1) THEN store(end + 2)
             ELSE stop(end + 2)
=============================================================================
