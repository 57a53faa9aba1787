------------------------ MODULE MCTicketStoreSerial ------------------------
(* TicketStoreSerial on the submissions of MCTicketStore. *)
EXTENDS MCTicketStore, TicketStoreSerial
=============================================================================
