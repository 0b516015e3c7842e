------------------------------- MODULE MCServer -------------------------------
(***************************************************************************)
(* Instances of Server for TLC. Two connections over one or two            *)
(* descriptors: one client waits for the other, or both leave a scrape     *)
(* without a descriptor; three connections for the order of the queue.     *)
(***************************************************************************)
EXTENDS Server

Request(form, creds, path, method, connection) ==
  [form |-> form, creds |-> creds, path |-> path, method |-> method, connection |-> connection]

Scrape == Request("http", "valid", "/metrics", "GET", "keep-alive")
LastScrape == Request("http", "valid", "/metrics", "GET", "close")
Junk == Request("junk", "invalid", "other", "other", "close")

(* Every way to fail the checks, the first alone and all together.        *)
AllRequests ==
  { Junk, Scrape, LastScrape,
    Request("http", "invalid", "other", "other", "keep-alive"),
    Request("http", "valid", "other", "other", "keep-alive"),
    Request("http", "valid", "/metrics", "other", "keep-alive") }

FewRequests == {Scrape, Junk}
===============================================================================
