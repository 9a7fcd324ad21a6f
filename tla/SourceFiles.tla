---------------------------- MODULE SourceFiles ----------------------------
(***************************************************************************)
(* The files the mirrors publish, as the ingest sees them.                 *)
(*                                                                         *)
(* A file is one (source, season) of configs/sources.json.  A mirror       *)
(* publishes successive versions of it; a version stands both for the      *)
(* content and for the validator (the ETag, or size and mtime of a local   *)
(* clone) that names that content.  Version 0 is "no such file" upstream,  *)
(* "no entry" in the ledger and "no row" in the database.                  *)
(***************************************************************************)
EXTENDS Naturals, Sequences

CONSTANTS
    Files,       \* the (source, season) files
    Keys,        \* natural keys of match rows
    Malformed,   \* what a row that does not parse is instead of a key
    MaxVersion,  \* bound: how many versions a mirror ever publishes of a file
    Content,     \* Content[f][v]: the rows of version v of file f, in order
    MayRevert    \* whether a mirror may publish an older content again

Versions == 1..MaxVersion
VersionOrNone == 0..MaxVersion

ASSUME SourceFilesAssumption ==
    /\ MaxVersion \in Nat
    /\ Malformed \notin Keys
    /\ Content \in [Files -> [Versions -> Seq(Keys \cup {Malformed})]]
    /\ MayRevert \in BOOLEAN

\* Positions lo+1..hi of version v of f whose row parses.
GoodRows(f, v, lo, hi) == {i \in lo + 1 .. hi : Content[f][v][i] # Malformed}

\* The natural keys those rows are upserted under.
KeysIn(f, v, lo, hi) == {Content[f][v][i] : i \in GoodRows(f, v, lo, hi)}

KeysOf(f, v) == KeysIn(f, v, 0, Len(Content[f][v]))
=============================================================================
