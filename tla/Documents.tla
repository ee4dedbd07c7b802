----------------------------- MODULE Documents -----------------------------
(***************************************************************************)
(* JSON documents written as TLA+ records, for the modules that instantiate*)
(* Configuration.                                                          *)
(***************************************************************************)
EXTENDS Configuration

\* The object with the properties of a record.
Obj(record) ==
    Object(FoldSet(LAMBDA key, members : Append(members, Member(key, record[key])),
                   <<>>, DOMAIN record))

Whole(n) == Number(n, 0)
Percent(n) == Number(n \div 100, n % 100)
Ints(sizes) == List([i \in DOMAIN sizes |-> Whole(sizes[i])])
=============================================================================
