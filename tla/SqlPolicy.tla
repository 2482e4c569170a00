------------------------------ MODULE SqlPolicy ------------------------------
(***************************************************************************)
(* SnowflakeSqlPolicy (src/snowglobe/sql_policy.py): which statements are  *)
(* let through to Snowflake, and in which form.                            *)
(*                                                                         *)
(* A statement is what the policy asks of SQLGlot's reading of a text.     *)
(* The three parts of a view's name are abstracted to one, a name to its   *)
(* case.  SQLGlot, which reads and renders, and Snowflake, which resolves  *)
(* names, are external.                                                    *)
(***************************************************************************)
EXTENDS Integers, FiniteSets

CONSTANTS
  MaxRows,       \* maximum_rows
  MaxCount,      \* bound: the rows a literal limit may ask for
  MaxRelations   \* bound: the tables a statement reads

ASSUME PolicyAssumption ==
  MaxRows \in Nat \ {0} /\ MaxCount \in Nat /\ MaxCount > MaxRows /\ MaxRelations \in Nat

\* A relation that is a table to SQLGlot.
Table == [qualified : BOOLEAN, quoted : BOOLEAN, case : {"upper", "lower"}]

Limit == [kind : {"none", "percent", "ties", "dynamic"}, count : {0}]
           \cup [kind : {"literal"}, count : 0 .. MaxCount]
Literal(n) == [kind |-> "literal", count |-> n]

\* Any number of statements that are not one query is a statement with ~ query.
Statement == [query : BOOLEAN,
              into : BOOLEAN,           \* a query with INTO, which is not rendered as one
              unknown : BOOLEAN,        \* it has a row source the policy does not know
              tables : SUBSET Table,
              limit : Limit]

\* What may be submitted, within the bounds
Statements == {s \in Statement : Cardinality(s.tables) <= MaxRelations}

\* allowed_views: _configured_view accepts only unquoted, upper-case names.
allowed_views == {"upper"}

\* Mutant: quoted names are folded like the others.
FoldedIdentifier(t) == "upper"

\* _canonical_identifier
CanonicalIdentifier(t) == IF t.quoted THEN t.case ELSE "upper"

\* _validate, with _parse_query: every row source of every scope
Validated(s) ==
  /\ s.query
  /\ ~ s.unknown
  /\ \A t \in s.tables : t.qualified /\ CanonicalIdentifier(t) \in allowed_views

\* Mutant: the cap is the number of rows that may be shown.
CapWithoutOverflow(s) ==
  IF s.limit.kind = "literal" /\ s.limit.count <= MaxRows THEN s
  ELSE [s EXCEPT !.limit = Literal(MaxRows)]

\* _apply_row_cap: a percentage and ties are replaced, whatever they come to.
Capped(s) ==
  IF s.limit.kind = "literal" /\ s.limit.count <= MaxRows + 1 THEN s
  ELSE [s EXCEPT !.limit = Literal(MaxRows + 1)]

\* SQLGlot renders a query with INTO as CREATE TABLE AS.
Reread(s) == [s EXCEPT !.query = @ /\ ~ s.into]

Governed(s) == Reread(Capped(s))

\* Mutant: the text that will be executed is not read again.
AuthorizesOnce(s) == Validated(s) /\ s.limit.kind # "dynamic"

\* authorize: the statement, and the one that its rendering is.
Authorizes(s) ==
  /\ \A r \in {s, Governed(s)} : Validated(r) /\ r.limit.kind # "dynamic"
  /\ Capped(Governed(s)) = Governed(s)
=============================================================================
