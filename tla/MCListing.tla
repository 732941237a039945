----------------------------- MODULE MCListing -----------------------------
(* Up to four items, pages of two, two acts of others during the call.           *)
EXTENDS Listing

MCLists == TicketKinds \cup PullKinds \cup Threads
=============================================================================
