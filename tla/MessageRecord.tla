--------------------------- MODULE MessageRecord ----------------------------
(***************************************************************************)
(* What a message is to those who use it: some of its fields, each with    *)
(* its content, and the bytes it has been sent and does not understand.    *)
(* The content of a submessage is a message again, that of a list a        *)
(* sequence of them.  Nothing here knows of has bits, of pointers that are *)
(* kept for later or of bytes on a wire.                                   *)
(***************************************************************************)
EXTENDS ProtoMessage

NothingSet == [fields |-> << >>, unknown |-> << >>]

\* The message that an object is.
RECURSIVE Contents(_, _)
Contents(c, o) ==
  LET content(f) ==
        CASE IsMessage(c, f) -> Contents(ClassOf(c, f), o.val[f][1])
          [] IsRepeated(c, f) -> [k \in DOMAIN o.val[f] |-> Contents(ClassOf(c, f), o.val[f][k])]
          [] OTHER -> o.val[f]
  IN  [fields |-> [f \in {g \in Fields(c) : HasField(c, o, g)} |-> content(f)],
       unknown |-> o.unknown]

(***************************************************************************)
(* What the operations mean.                                               *)
(***************************************************************************)
Put(r, f, content) == [r EXCEPT !.fields = (f :> content) @@ @]

Without(r, f) == [r EXCEPT !.fields = [g \in DOMAIN @ \ {f} |-> @[g]]]

\* The content of a submessage that may not be there.
Inner(r, f) == IF f \in DOMAIN r.fields THEN r.fields[f] ELSE NothingSet

Appended(r, f, content) ==
  Put(r, f, Append(IF f \in DOMAIN r.fields THEN r.fields[f] ELSE << >>, content))

RECURSIVE Merged(_, _, _)
Merged(c, r, from) ==
  LET both(f) == CASE IsMessage(c, f) -> Merged(ClassOf(c, f), r.fields[f], from.fields[f])
                   [] IsRepeated(c, f) -> r.fields[f] \o from.fields[f]
                   [] OTHER -> from.fields[f]
      content(f) == IF f \notin DOMAIN from.fields THEN r.fields[f]
                    ELSE IF f \notin DOMAIN r.fields THEN from.fields[f] ELSE both(f)
  IN  [fields |-> [f \in DOMAIN r.fields \cup DOMAIN from.fields |-> content(f)],
       unknown |-> r.unknown \o from.unknown]

\* Request.proto and Message.proto require every field that is neither a
\* submessage nor a list; a message is complete when it has them, at any depth.
RECURSIVE Complete(_, _)
Complete(c, r) ==
  \A f \in Fields(c) :
    IF f \notin DOMAIN r.fields THEN IsMessage(c, f) \/ IsRepeated(c, f)
    ELSE /\ IsMessage(c, f) => Complete(ClassOf(c, f), r.fields[f])
         /\ IsRepeated(c, f) =>
              \A k \in DOMAIN r.fields[f] : Complete(ClassOf(c, f), r.fields[f][k])
=============================================================================
