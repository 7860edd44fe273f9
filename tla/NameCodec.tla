------------------------------ MODULE NameCodec -----------------------------
(***************************************************************************)
(* How storage names become the names of streams and subjects (subject.go, *)
(* ordered_codec.go).  A name is a sequence of characters, as the escapes  *)
(* work on them one by one.                                                *)
(***************************************************************************)
EXTENDS Sequences, SequencesExt

\* The characters storage.ValidateName accepts.
NameChars ==
  {"a", "b", "c", "d", "e", "f", "g", "h", "i", "j", "k", "l", "m", "n", "o", "p", "q", "r", "s",
   "t", "u", "v", "w", "x", "y", "z", "0", "1", "2", "3", "4", "5", "6", "7", "8", "9",
   "_", ".", "-", "/"}

EscapeNaive(ch) == IF ch \in {".", "/"} THEN <<"_">> ELSE <<ch>>

\* A stream name has no '.' and no '/'.  '_' escapes itself.
Escape(ch) ==
  CASE ch = "_" -> <<"_", "u">>
    [] ch = "." -> <<"_", "d">>
    [] ch = "/" -> <<"_", "s">>
    [] OTHER -> <<ch>>

EncodeStream(name) == FlattenSeq([i \in 1..Len(name) |-> Escape(name[i])])

\* '/' separates the tokens of a subject, and '.' is escaped first.
EscapeDot(ch) ==
  CASE ch = "." -> <<"%", "2", "E">> [] ch = "/" -> <<".">> [] OTHER -> <<ch>>

EncodeSubject(name) == FlattenSeq([i \in 1..Len(name) |-> EscapeDot(name[i])])

\* No ledger's name has an upper case letter.
OrderedStreamName(namespace) == <<"O", "I", "_">> \o EncodeStream(namespace)

\* The subjects a stream takes: one, or all that begin with it and another token.
OrderedSubjectFilter(namespace) ==
  [root |-> <<"O", "I", ".">> \o EncodeStream(namespace), below |-> TRUE]
LedgerSubject(name) == [root |-> EncodeSubject(name), below |-> FALSE]

Root(f) == IF f.below THEN Append(f.root, ".") ELSE f.root

\* Whether some subject is in both.
Overlap(f, g) ==
  \/ f.root = g.root /\ f.below = g.below
  \/ f.below /\ IsPrefix(Root(f), Root(g))
  \/ g.below /\ IsPrefix(Root(g), Root(f))
=============================================================================
