---------------------------- MODULE MCSchemaInit ----------------------------
(* Instance of SchemaInit: the columns added to Ticket since the first version. *)
EXTENDS SchemaInit

Columns == {"base", "attachments", "diagnostic_json", "origin_local_id"}
Additive == <<"attachments", "diagnostic_json">>

\* Tables as of before 2026-07-28, before 2026-08-30 (T13a), and an interrupted
\* migration of the first.
Shapes == {{"base"}, {"base", "attachments"}, {"base", "attachments", "diagnostic_json"}}
=============================================================================
