------------------------------ MODULE CartSync ------------------------------
(***************************************************************************)
(* What the cart synchronizer promises (spec sections 4.2 and 5): the     *)
(* shopper's quantity changes reach the remote cart one at a time, each   *)
(* applied atomically to the item the shopper chose, while the busy flag  *)
(* keeps further changes out; adds from the product form may happen at    *)
(* any time.  A change may be refused or lost, and the busy flag is       *)
(* released only when no change is pending.  Aim(c, ch) is the set of     *)
(* lines of cart c that change ch may alter: the chosen item's line for   *)
(* the full contract, any line for the serialization contract alone.      *)
(***************************************************************************)
EXTENDS Integers, FiniteSets, CartServer

CONSTANTS
    InitCart,        \* the remote cart initially
    AddQtys,         \* quantities an add may carry
    Aim(_, _)        \* lines of a cart a change may alter

VARIABLES
    scart,           \* the remote cart
    busy,            \* the synchronizer is Busy
    pending          \* the change requested and not yet applied: {} or one

svars == <<scart, busy, pending>>

Change == [key : Variants, qty : Int]

SInit ==
    /\ scart = InitCart
    /\ busy = FALSE
    /\ pending = {}

\* Idle --stepper/remove--> Busy, with one change for one item.
Request ==
    /\ ~busy
    /\ pending = {}
    /\ busy' = TRUE
    /\ Cardinality(pending') = 1
    /\ pending' \subseteq Change
    /\ UNCHANGED scart

\* The server applies the pending change to a line it may aim at.
Apply ==
    /\ pending # {}
    /\ LET ch == CHOOSE x \in pending : TRUE
       IN \E l \in Aim(scart, ch) :
             /\ CanChange(scart, l, ch.qty)
             /\ scart' = ChangeLine(scart, l, ch.qty)
    /\ pending' = {}
    /\ UNCHANGED busy

\* The change is refused or lost: the cart is left alone.
Reject ==
    /\ pending # {}
    /\ pending' = {}
    /\ UNCHANGED <<scart, busy>>

\* Busy --settled--> Idle once nothing is pending.
Release ==
    /\ busy
    /\ pending = {}
    /\ busy' = FALSE
    /\ UNCHANGED <<scart, pending>>

\* An add from the product form, independent of the busy flag.
Add ==
    /\ \E k \in Variants, q \in AddQtys :
          /\ CanAdd(scart, k, q)
          /\ scart' = AddLine(scart, k, q)
    /\ UNCHANGED <<busy, pending>>

SNext == Request \/ Apply \/ Reject \/ Release \/ Add

SSpec == SInit /\ [][SNext]_svars

====
