----------------------------- MODULE RequestPath -----------------------------
(***************************************************************************)
(* The path of a request, from the bytes that were read to the string that *)
(* the router compares: parse_request of src/router.c, and the loops of    *)
(* url_decode, normalize_path and is_path_traversal, which handle_request  *)
(* runs one after the other over one buffer.  Text is a sequence of bytes; *)
(* decoded is the buffer itself, with the terminators that the loops       *)
(* write, and src and dst are their pointers.                              *)
(***************************************************************************)
EXTENDS Integers, Sequences, SequencesExt, FiniteSets

CONSTANTS
  Requests,      \* texts that may have been read from a connection
  MethodWidth,   \* the 9 and the 255 of the format of sscanf
  PathWidth

ASSUME RequestPathAssumption ==
  /\ {MethodWidth, PathWidth} \subseteq Nat \ {0}
  /\ \A text \in Requests : text \in Seq(1..255)

NUL == 0
Newline == 10
Percent == 37
Slash == 47
Spaces == 9..13 \cup {32}
EndOfHeaders == <<13, 10, 13, 10>>
Digits == 48..57
UpperHex == 65..70
LowerHex == 97..102

VARIABLES
  raw, line,    \* the text of the request, and the line that strtok found
  path, body,   \* of HTTPRequest
  decoded,      \* decoded_path
  src, dst,     \* the pointers of the loop that runs
  depth,        \* of is_path_traversal
  at            \* where the request is

text_vars == <<raw, line, path, body>>
buffer_vars == <<decoded, src, dst, depth>>
path_vars == <<text_vars, buffer_vars, at>>

PathSteps == {"raw", "parse", "copy", "decode", "normalize", "check", "denied", "inspect"}

\* Bytes stay bytes, the last terminator of the buffer stays where it is, and no
\* loop reads past it or writes past what it has read.
PathTypeOK ==
  /\ \A text \in {raw, line, path, body} : text \in Seq(1..255)
  /\ decoded \in Seq(0..255)
  /\ decoded # <<>> => Last(decoded) = NUL /\ src <= Len(decoded)
  /\ src \in Nat \ {0} /\ dst \in 1..src
  /\ depth \in Int

PathInit ==
  /\ raw \in Requests
  /\ line = <<>> /\ path = <<>> /\ body = <<>> /\ decoded = <<>>
  /\ src = 1 /\ dst = 1 /\ depth = 0
  /\ at = "raw"

-----------------------------------------------------------------------------
(* parse_request                                                           *)

\* strstr.
Occurrences(part, text) ==
  {n \in 1..Len(text) - Len(part) + 1 : SubSeq(text, n, n + Len(part) - 1) = part}
Occurs(part, text) == Occurrences(part, text) # {}

\* The positions of a text, from one on, whose characters are in a set or are not;
\* and the first of several positions, or what follows the text.
In(text, from, chars) == {n \in from..Len(text) : text[n] \in chars}
NotIn(text, from, chars) == {n \in from..Len(text) : text[n] \notin chars}
FirstOf(positions, text) == Min(positions \cup {Len(text) + 1})

\* strtok returns the first line that is not empty, and its newline becomes a
\* terminator: the text ends with that line.
strtok ==
  /\ at = "raw"
  /\ \E first \in {FirstOf(NotIn(raw, 1, {Newline}), raw)} :
       \E next \in {FirstOf(In(raw, first, {Newline}), raw)} :
         /\ line' = SubSeq(raw, first, next - 1)
         /\ raw' = SubSeq(raw, 1, next - 1)
  /\ at' = "parse"
  /\ UNCHANGED <<path, body, buffer_vars>>

\* Where a word of sscanf that begins at a position ends.
WordEnd(text, first, width) == Min({first + width, FirstOf(In(text, first, Spaces), text)}) - 1

\* The second word of a line, empty when there is none.
PathWords(text) ==
  {SubSeq(text, second, WordEnd(text, second, PathWidth)) :
     second \in {FirstOf(NotIn(text, WordEnd(text, first, MethodWidth) + 1, Spaces), text) :
                   first \in {FirstOf(NotIn(text, 1, Spaces), text)}}}

\* What follows the first empty line.
AfterHeaders(text) ==
  IF Occurs(EndOfHeaders, text)
  THEN SubSeq(text, Min(Occurrences(EndOfHeaders, text)) + 4, Len(text)) ELSE <<>>

\* sscanf of the line; the headers and the body are searched for in the text that
\* strtok has left.
parse_request ==
  /\ at = "parse"
  /\ path' \in PathWords(line)
  /\ body' = AfterHeaders(raw)
  /\ at' = "copy"
  /\ UNCHANGED <<raw, line, buffer_vars>>

-----------------------------------------------------------------------------
(* handle_request, up to the checks                                        *)

\* A loop begins at the start of the buffer.
Rewind(loop) == src' = 1 /\ dst' = 1 /\ at' = loop

CopyPath ==
  /\ at = "copy"
  /\ decoded' = Append(path, NUL)
  /\ Rewind("decode")
  /\ UNCHANGED <<text_vars, depth>>

Put(c) == decoded' = [decoded EXCEPT ![dst] = c]

\* A character of the result is written, n characters of the text are done.
Emit(c, n) ==
  /\ Put(c)
  /\ src' = src + n /\ dst' = dst + 1
  /\ UNCHANGED <<text_vars, depth, at>>

Terminate(loop, next) ==
  /\ at = loop /\ decoded[src] = NUL
  /\ Put(NUL)
  /\ Rewind(next)
  /\ UNCHANGED <<text_vars, depth>>

HexDigit(c) == c \in Digits \cup UpperHex \cup LowerHex

hex_to_int(c) ==
  CASE c \in Digits -> c - 48
    [] c \in UpperHex -> c - 55
    [] c \in LowerHex -> c - 87
    [] OTHER -> 0

\* Mutant of Escape: one hexadecimal digit is enough.
EscapeShort(s, n) == s[n] = Percent /\ HexDigit(s[n + 1])

Escape(s, n) == s[n] = Percent /\ HexDigit(s[n + 1]) /\ HexDigit(s[n + 2])

EscapedByte(s, n) == 16 * hex_to_int(s[n + 1]) + hex_to_int(s[n + 2])

\* Mutant of DecodeEscape: the result is decoded once more.
DecodeEscapeAgain ==
  /\ at = "decode" /\ Escape(decoded, src)
  /\ decoded' = [decoded EXCEPT ![src + 2] = EscapedByte(decoded, src)]
  /\ src' = src + 2
  /\ UNCHANGED <<text_vars, dst, depth, at>>

DecodeEscape ==
  /\ at = "decode" /\ Escape(decoded, src)
  /\ Emit(EscapedByte(decoded, src), 3)

DecodeOther ==
  /\ at = "decode" /\ decoded[src] # NUL /\ ~ Escape(decoded, src)
  /\ Emit(decoded[src], 1)

DecodeEnd == Terminate("decode", "normalize")

SlashPair(s, n) == s[n] = Slash /\ s[n + 1] = Slash

SkipSlash ==
  /\ at = "normalize" /\ decoded[src] # NUL /\ SlashPair(decoded, src)
  /\ src' = src + 1
  /\ UNCHANGED <<text_vars, decoded, dst, depth, at>>

KeepCharacter ==
  /\ at = "normalize" /\ decoded[src] # NUL /\ ~ SlashPair(decoded, src)
  /\ Emit(decoded[src], 1)

NormalizeEnd == Terminate("normalize", "check")

\* strncmp with a text: is it what the buffer has from n on?
Starts(part, n) ==
  n + Len(part) - 1 <= Len(decoded) /\ SubSeq(decoded, n, n + Len(part) - 1) = part

UpDir == <<46, 46, 47>>
SameDir == <<46, 47>>

\* How the directory level changes, and how many characters that takes.
Level ==
  CASE Starts(UpDir, src) -> [change |-> -1, length |-> 3]
    [] ~ Starts(UpDir, src) /\ Starts(SameDir, src) -> [change |-> 0, length |-> 2]
    [] decoded[src] = Slash /\ ~ SlashPair(decoded, src) -> [change |-> 1, length |-> 1]
    [] OTHER -> [change |-> 0, length |-> 1]

CheckLevel ==
  /\ at = "check" /\ decoded[src] # NUL
  /\ depth' = depth + Level.change
  /\ src' = src + Level.length
  /\ at' = IF depth' < 0 THEN "denied" ELSE "check"
  /\ UNCHANGED <<text_vars, decoded, dst>>

CheckEnd ==
  /\ at = "check" /\ decoded[src] = NUL
  /\ at' = "inspect"
  /\ UNCHANGED <<text_vars, buffer_vars>>

PathNext ==
  \/ strtok \/ parse_request \/ CopyPath
  \/ DecodeEscape \/ DecodeOther \/ DecodeEnd
  \/ SkipSlash \/ KeepCharacter \/ NormalizeEnd
  \/ CheckLevel \/ CheckEnd

-----------------------------------------------------------------------------
(* Properties                                                              *)

\* A string ends at its first terminator.
CString(buffer) == SubSeq(buffer, 1, FirstOf(In(buffer, 1, {NUL}), buffer) - 1)

\* How many of a set of positions come before one, the k-th of them, and the values
\* at all of them in their order.
Before(positions, n) == Cardinality({m \in positions : m < n})
Nth(positions, k) == CHOOSE n \in positions : Before(positions, n) + 1 = k
Selected(positions, value) ==
  [k \in 1..Cardinality(positions) |-> value[Nth(positions, k)]]

\* Every escape replaced where it stands, with no regard to what it becomes.
Padded(word) == word \o <<NUL, NUL>>
Escapes(word) == {n \in DOMAIN word : Escape(Padded(word), n)}
Spent(word) == {n + k : n \in Escapes(word), k \in {1, 2}}
Meant(word) ==
  [n \in DOMAIN word |-> IF n \in Escapes(word) THEN EscapedByte(Padded(word), n) ELSE word[n]]
Decoded(word) == Selected(DOMAIN word \ Spent(word), Meant(word))

\* Every run of slashes a single one.
Singles(text) == {n \in DOMAIN text : n < Len(text) => ~ SlashPair(text, n)}
Normalized(text) == Selected(Singles(text), text)

\* What the router compares is the path of the request line decoded once, ended
\* by its first NUL and with single slashes, although it is decoded and normalized
\* in one buffer, each loop running over what the one before it left there.
Word == CString(Decoded(path) \o <<NUL>>)
PathAsSent ==
  at \in {"check", "denied", "inspect"} => CString(decoded) = Normalized(Word)

\* Before an index, a buffer has the values for the first positions.
Written(positions, value, buffer, index) ==
  \A k \in 1..index-1 : buffer[k] = value[Nth(positions, k)]

\* What a loop over the buffer has done at src, when from a text it keeps some
\* positions and puts a value for each: those before src are done, and from src on
\* the buffer is still the text and its terminator.
LoopAt(text, positions, value) ==
  /\ Len(text) < Len(decoded) /\ decoded[Len(text) + 1] = NUL
  /\ src <= Len(text) + 1
  /\ \A n \in src..Len(text) : decoded[n] = text[n]
  /\ dst = Before(positions, src) + 1
  /\ Written(positions, value, decoded, dst)

\* The inductive invariant that PathAsSent follows from.
Copied == at \in {"decode", "normalize", "check", "denied", "inspect"} => decoded # <<>>
Decoding ==
  at = "decode" => /\ LoopAt(path, DOMAIN path \ Spent(path), Meant(path))
                   /\ src \notin Spent(path)
Normalizing == at = "normalize" => LoopAt(Word, Singles(Word), Word)
PathInv == PathTypeOK /\ Copied /\ Decoding /\ Normalizing /\ PathAsSent
=============================================================================
