-------------------------- MODULE MCDesktopPanels ---------------------------
\* A small instance of DesktopPanels: one file has a preview, one has not.
EXTENDS DesktopPanels, TLC

CONSTANTS f1, f2

MCMedia == f1 :> "image" @@ f2 :> "other"
=============================================================================
