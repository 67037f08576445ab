------------------------------- MODULE Pages --------------------------------
(***************************************************************************)
(* A page of a list: the rows a query finds, in an order, of which LIMIT    *)
(* and OFFSET cut a piece.  A request asks for one page, and names an       *)
(* offset and a limit; what lies before the offset depends on the rows that *)
(* are there when the query runs.                                           *)
(*                                                                          *)
(* The order is that of the times at which the rows were made, or of names; *)
(* no two are taken to be equal, of which the database would keep no order. *)
(* Rows may come in at any place of it.                                     *)
(***************************************************************************)
EXTENDS Naturals, FiniteSets

CONSTANTS
  PageLimit,   \* the limit asked for
  MaxPage,     \* bound on the pages that are asked for
  Rank         \* the order of the rows

ASSUME PagesAssumption ==
  /\ PageLimit \in Nat \ {0}
  /\ MaxPage \in Nat \ {0}
  /\ \A x \in DOMAIN Rank : Rank[x] \in Nat
  /\ \A x, y \in DOMAIN Rank : Rank[x] = Rank[y] => x = y

(* How many rows come before x. *)
Place(x, rows) == Cardinality({y \in rows : Rank[y] < Rank[x]})

(* Where the pages begin *)
Offsets == {(page - 1) * PageLimit : page \in 1..MaxPage}

(* The page of the rows that begins at the offset *)
Page(rows, offset) == {x \in rows : offset <= Place(x, rows) /\ Place(x, rows) < offset + PageLimit}

=============================================================================
