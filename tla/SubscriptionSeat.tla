-------------------------- MODULE SubscriptionSeat --------------------------
(***************************************************************************)
(* What billing promises about who is subscribed: an organisation has one   *)
(* seat, a subscription takes it while it is empty and gives it up before   *)
(* another can, and a subscription never changes organisation.              *)
(***************************************************************************)
CONSTANTS Orgs, Subs, NULL

VARIABLES seat,   \* the subscriptions of an organisation that are in force
          owner   \* the organisation a subscription was made for

seatVars == <<seat, owner>>

SeatInit == /\ seat = [o \in Orgs |-> {}]
            /\ owner = [s \in Subs |-> NULL]

TakeSeat(o, s) == /\ seat[o] = {}
                  /\ owner[s] \in {NULL, o}
                  /\ seat' = [seat EXCEPT ![o] = {s}]
                  /\ owner' = [owner EXCEPT ![s] = o]

LeaveSeat(o) == /\ seat[o] # {}
                /\ seat' = [seat EXCEPT ![o] = {}]
                /\ UNCHANGED owner

SeatNext == \E o \in Orgs : LeaveSeat(o) \/ \E s \in Subs : TakeSeat(o, s)

SeatSpec == SeatInit /\ [][SeatNext]_seatVars
=============================================================================
