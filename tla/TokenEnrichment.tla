--------------------------- MODULE TokenEnrichment ---------------------------
(***************************************************************************)
(* TokenEnrichmentService (apps/api/src/tokens) for one token.  enrichToken *)
(* runs when the indexer sees a token, enrichAll at the start and weekly.   *)
(* A pass reads the token list, then the chain and the stored row, and      *)
(* writes the whole row; passes interleave at every await.                  *)
(***************************************************************************)
EXTENDS Naturals

CONSTANTS Passes,        \* enrichment passes, each made once
          ListHas,       \* fields the token list knows of this token
          ChainHas       \* fields its contract answers

TokenFields == {"symbol", "logo"}   \* name and decimals fare as the symbol does

ASSUME TokenAssumption == ListHas \subseteq TokenFields /\ ChainHas \subseteq {"symbol"}

VARIABLES tokenRow,      \* the fields of the row that hold real metadata, not a placeholder
          pass,          \* [pass |-> [at, listed, chain, existing]]
          overtaken      \* history: passes during which another one wrote the row

tokenVars == <<tokenRow, pass, overtaken>>

TokenInit == /\ tokenRow = {} /\ overtaken = {}
             /\ pass = [x \in Passes |-> [at |-> "new", listed |-> {}, chain |-> {}, existing |-> {}]]

(* fetchTokenListMap: an unreachable or unconfigured list is an empty one. *)
FetchList(x) ==
  /\ pass[x].at = "new"
  /\ \E listed \in {ListHas, {}} : pass' = [pass EXCEPT ![x].at = "read", ![x].listed = listed]
  /\ UNCHANGED <<tokenRow, overtaken>>

(* fetchOnChainMetadata and findUnique side by side: the row is read at once, the chain is    *)
(* simulated over the network, and a call that fails gives nothing.                           *)
ReadRow(x) ==
  /\ pass[x].at = "read"
  /\ pass' = [pass EXCEPT ![x].at = "ask", ![x].existing = tokenRow]
  /\ UNCHANGED <<tokenRow, overtaken>>
AskChain(x) ==
  /\ pass[x].at = "ask"
  /\ \E chain \in {ChainHas, {}} : pass' = [pass EXCEPT ![x].at = "write", ![x].chain = chain]
  /\ UNCHANGED <<tokenRow, overtaken>>

(* Variant: what the row held is not considered. *)
FreshOnly(x) == pass[x].chain \cup pass[x].listed
(* Chain before list before row before placeholder; the logo is never asked of the chain. *)
KnownBy(x) == pass[x].chain \cup pass[x].listed \cup pass[x].existing

WriteToken(x) ==
  /\ pass[x].at = "write"
  /\ tokenRow' = KnownBy(x)
  /\ pass' = [pass EXCEPT ![x].at = "end"]
  /\ overtaken' = overtaken \cup {y \in Passes \ {x} : pass[y].at \in {"ask", "write"}}

(* The row cannot be read or written: the pass is given up with a warning. *)
PassFails(x) == /\ pass[x].at \in {"read", "write"} /\ pass' = [pass EXCEPT ![x].at = "end"]
                /\ UNCHANGED <<tokenRow, overtaken>>

TokenNext == \E x \in Passes : FetchList(x) \/ ReadRow(x) \/ AskChain(x) \/ WriteToken(x) \/ PassFails(x)

TokenSpec == TokenInit /\ [][TokenNext]_tokenVars

(* "must never regress a token that was already enriched" (token-enrichment.service.ts:71): a *)
(* field is lost only to a pass that had read the row before another one wrote it.            *)
RegressOnlyWhenOvertaken ==
  [][tokenRow \subseteq tokenRow' \/ \E x \in overtaken : pass[x].at = "write" /\ pass'[x].at = "end"]_tokenVars
=============================================================================
