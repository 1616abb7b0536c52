--------------------------- MODULE MCFrameStream ---------------------------
(* FrameStream with one file of each kind, all encrypted.                   *)
EXTENDS FrameStream

CONSTANTS m, f, p, x

MCFramework == {f}
MCPlugIn    == {p}
MCExtension == {x}
MCEncrypted == {m, f, p, x}
=============================================================================
