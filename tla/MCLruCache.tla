----------------------------- MODULE MCLruCache -----------------------------
(* Instances of LruCache: one node name more than the list has entries. *)
EXTENDS LruCache

NodeNames == 1..(MaxEntries + 1)
=============================================================================
