----------------------------- MODULE MCService -----------------------------
(***************************************************************************)
(* Requests, files and disks for TLC's runs of Service.                    *)
(***************************************************************************)
EXTENDS Service

CONSTANTS r1

Files == <<"app.log", "core", "data.csv">>

MCExtension == ("app.log" :> "log") @@ ("core" :> "none") @@ ("data.csv" :> "csv")

L(words, stamp) == [words |-> words, stamp |-> stamp]

Bad  == L({"error", "warn"}, 1)
Late == L({"error"}, 2)
Dead == L({"panic"}, 3)

(* A directory below the root, files of every kind, one that is unreadable *)
(* and one that is ignored.                                                *)
Nested ==
  ("."   :> ("app.log" :> <<Bad, Late, Dead>>)) @@
  ("sub" :> ("app.log" :> Unreadable @@ "core" :> <<Bad, Bad, Dead>> @@ "data.csv" :> <<Dead>>))

(* ... after the directory was cleaned up and the root was written to.     *)
Cleaned == ("." :> ("app.log" :> <<Late, Bad>>))

MCDisks == {Nested, Cleaned}

Ask(dir, keywords) == [dir |-> dir, keywords |-> keywords]

MCDefaultKeywords == <<"error", "ERROR">>

(* The default keywords at the root, and a search in the directory, whose  *)
(* gravest keyword comes last.                                             *)
MCInput == {Ask(".", MCDefaultKeywords), Ask("sub", <<"warn", "panic">>)}
=============================================================================
