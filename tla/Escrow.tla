-------------------------------- MODULE Escrow --------------------------------
(***************************************************************************)
(* rhizo_core/src/transaction/escrow.rs: an EscrowManager, which lets a    *)
(* node consume its quota of a resource without asking the others.  Every  *)
(* operation holds the lock of the resources from begin to end.  The rate  *)
(* estimates are floats of elapsed time: a quota computed from one is any  *)
(* quota in the configured bounds.  Amounts are far below the overflow.    *)
(***************************************************************************)
EXTENDS Integers, FiniteSets

CONSTANTS
  Resources,             \* resource identifiers
  Amounts,               \* amounts and quotas callers ask for
  MinQuota, MaxQuota,    \* EscrowConfig::min_quota and max_quota
  AdaptiveSizing         \* EscrowConfig::adaptive_sizing

ASSUME EscrowAssumption ==
  /\ Amounts \subseteq Int
  /\ MinQuota \in Nat /\ MaxQuota \in Nat
  /\ AdaptiveSizing \in BOOLEAN

\* EscrowConfig::validate, which the constructors do not call.
ValidConfig == MinQuota <= MaxQuota

VARIABLES
  escrow,    \* the registered resources
  granted    \* what each was given: initial quota and replenishments

escrowVars == <<escrow, granted>>

\* EscrowResource::new
NewResource(total, quota) ==
  [available |-> quota, allocated |-> quota, total |-> total,
   consumed |-> 0, replenished |-> 0, local |-> 0, coordination |-> 0]

\* calculate_optimal_quota: the quantile clamped to the bounds, the upper one
\* last; min_quota when no requests are expected.
OptimalQuota(quantile) ==
  LET raised == IF quantile >= MinQuota THEN quantile ELSE MinQuota
  IN IF raised <= MaxQuota THEN raised ELSE MaxQuota
OptimalQuotas == {OptimalQuota(q) : q \in 0..MaxQuota} \cup {MinQuota}

EscrowInit == escrow = [r \in {} |-> NewResource(0, 0)] /\ granted = [r \in Resources |-> 0]

\* register_resource refuses a resource it has.
Register(r, total, quota) ==
  /\ r \notin DOMAIN escrow
  /\ escrow' = [s \in DOMAIN escrow \cup {r} |->
                  IF s = r THEN NewResource(total, quota) ELSE escrow[s]]
  /\ granted' = [granted EXCEPT ![r] = quota]

\* register_resource_auto_quota
RegisterAuto(r, total) == \E quota \in OptimalQuotas : Register(r, total, quota)

\* try_consume; an amount that is not positive is refused.
TryConsume(r, amount) ==
  /\ r \in DOMAIN escrow /\ amount > 0
  /\ \/ /\ escrow[r].available >= amount
        /\ escrow' = [escrow EXCEPT ![r].available = @ - amount, ![r].consumed = @ + amount,
                                    ![r].local = @ + 1]
     \/ /\ escrow[r].available < amount
        /\ escrow' = [escrow EXCEPT ![r].coordination = @ + 1]
  /\ UNCHANGED granted

\* Mutant: any amount fills the quota up.
ReplenishInFull(r, amount) ==
  /\ r \in DOMAIN escrow
  /\ escrow' = [escrow EXCEPT ![r].available = escrow[r].allocated, ![r].replenished = @ + amount]
  /\ granted' = [granted EXCEPT ![r] = @ + amount]

\* replenish: a new quota takes the place of what was left of the old one.
Replenish(r, amount) ==
  /\ r \in DOMAIN escrow
  /\ escrow' = [escrow EXCEPT ![r].available =
                                IF amount <= escrow[r].allocated THEN amount ELSE escrow[r].allocated,
                              ![r].replenished = @ + amount]
  /\ granted' = [granted EXCEPT ![r] = @ + amount]

\* resize_quotas: what is available is left as it is.
ResizeQuotas ==
  /\ AdaptiveSizing
  /\ \E quota \in [DOMAIN escrow -> OptimalQuotas] :
       escrow' = [r \in DOMAIN escrow |-> [escrow[r] EXCEPT !.allocated = quota[r]]]
  /\ UNCHANGED granted

\* needs_replenishment, with a threshold in percent.
NeedsReplenishment(r, percent) ==
  r \in DOMAIN escrow /\ escrow[r].available < (escrow[r].allocated * percent) \div 100

EscrowNext ==
  \/ \E r \in Resources, amount \in Amounts :
       \/ \E total \in Amounts : Register(r, total, amount)
       \/ RegisterAuto(r, amount)
       \/ TryConsume(r, amount)
       \/ Replenish(r, amount)
  \/ ResizeQuotas

EscrowSpec == EscrowInit /\ [][EscrowNext]_escrowVars

-----------------------------------------------------------------------------
(* Properties *)

\* Types of the variables.
EscrowTypeOK ==
  /\ escrow = [r \in DOMAIN escrow |-> escrow[r]] /\ DOMAIN escrow \subseteq Resources
  /\ \A r \in DOMAIN escrow :
       escrow[r] \in [available : Int, allocated : Int, total : Int, consumed : Nat,
                      replenished : Int, local : Nat, coordination : Nat]
  /\ granted \in [Resources -> Int]

\* A node never consumes more of a resource than it was given, its initial
\* quota and its replenishments, and never has more left than the rest of it,
\* however consuming, replenishing and resizing follow each other (escrow.rs:305
\* and 330): this is what makes consuming without coordination safe.
NeverOverspends ==
  \A r \in DOMAIN escrow :
    /\ escrow[r].available >= 0
    /\ escrow[r].consumed + escrow[r].available <= granted[r]

\* The quotas handed out fit in the resource: escrow.rs:20, "Total = sum of
\* quotas + reserve".
QuotaWithinTotal == \A r \in DOMAIN escrow : escrow[r].allocated <= escrow[r].total
=============================================================================
