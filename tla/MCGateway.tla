----------------------------- MODULE MCGateway -----------------------------
(***************************************************************************)
(* Small instances of Gateway: a user's text, image and command.  A turn   *)
(* whose answer is suppressed does what one without an answer does.        *)
(***************************************************************************)
EXTENDS Gateway

AllKinds    == {"text", "image", "command"}
WithBody    == {"text", "command"}
ImageOnly   == {"image"}
CommandOnly == {"command"}
NoKind      == {}
=============================================================================
