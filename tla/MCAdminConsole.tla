--------------------------- MODULE MCAdminConsole ---------------------------
(* AdminConsole with an unfiltered and a filtered list, or two pages of one. *)
EXTENDS AdminConsole

CONSTANTS all, failed

Queries == {all, failed}
=============================================================================
