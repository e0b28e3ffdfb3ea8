----------------------------- MODULE FlatBuffer -----------------------------
(***************************************************************************)
(* What a ByteArray promises its users: one growing run of bytes with a    *)
(* cursor.  Nothing is said of blocks.  ByteArray.tla implements it.       *)
(***************************************************************************)
EXTENDS Naturals, Sequences

VARIABLES
  bytes,   \* the content, getSize() long
  pos,     \* the cursor, getPosition()
  out      \* the bytes the last reading step handed to its caller

vars == <<bytes, pos, out>>

Init == bytes = <<>> /\ pos = 0 /\ out = <<>>

\* The content with chunk laid over it at the cursor.
Overlaid(chunk) ==
  SubSeq(bytes, 1, pos) \o chunk \o SubSeq(bytes, pos + Len(chunk) + 1, Len(bytes))

Overwrites(chunk) ==
  /\ bytes' = Overlaid(chunk)
  /\ pos' = pos + Len(chunk)
  /\ out' = <<>>

\* A chunk is written at the cursor.  It is the one that the next content
\* shows there: the abstract buffer does not restrict what is written.
Put ==
  /\ pos' > pos
  /\ Overwrites(SubSeq(bytes', pos + 1, pos'))

\* Bytes are read at the cursor, which moves past them, and never further
\* than the content goes.
Take ==
  /\ pos' \in pos .. Len(bytes)
  /\ out' = SubSeq(bytes, pos + 1, pos')
  /\ bytes' = bytes

\* Bytes are looked at, the cursor stays.
Peek ==
  /\ \E n \in 0 .. Len(bytes) - pos : out' = SubSeq(bytes, pos + 1, pos + n)
  /\ UNCHANGED <<bytes, pos>>

\* The cursor is moved; past the end this lengthens the content by bytes
\* nobody wrote.
Seek ==
  /\ LET grown == IF pos' > Len(bytes) THEN pos' ELSE Len(bytes)
     IN  /\ Len(bytes') = grown
         /\ SubSeq(bytes', 1, Len(bytes)) = bytes
  /\ out' = <<>>

Clear == bytes' = <<>> /\ pos' = 0 /\ out' = <<>>

Next == Put \/ Take \/ Peek \/ Seek \/ Clear

Spec == Init /\ [][Next]_vars
=============================================================================
