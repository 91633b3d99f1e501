--------------------------- MODULE MCCanvasEditing ---------------------------
(* Two edits of the editor, made in any order, and one of somebody else.   *)
EXTENDS CanvasEditing

TwoEdits == {"e1", "e2"}
OneOther == {"o1"}

=============================================================================
