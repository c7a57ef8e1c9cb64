------------------------------ MODULE OFTMesh ------------------------------
(***************************************************************************)
(* The OFT program among the OFTs of its token on other chains.  Those are *)
(* outside the repository and taken together: they give a receiver what a  *)
(* message of the program tells them of, move tokens among themselves, and *)
(* send back no more than they hold.  LayerZero verifies for the program   *)
(* what they sent to it, and nothing else, in any order and after any      *)
(* delay.  What they hold is counted in the decimals of the wire, finer    *)
(* than this chain's.                                                      *)
(***************************************************************************)
EXTENDS OFT

CONSTANT InitialAbroad  \* what the other chains hold at first

\* An Adapter locks for all that is abroad.  A Native OFT's token may come from
\* abroad, and all of it there ever is fits in a u64 here.
ASSUME MeshAssumption ==
    /\ InitialAbroad \in Nat
    /\ OftType = Adapter => InitialAbroad = 0
    /\ OftType = Native =>
         DUST * (Cardinality(Users) * InitialTokens) + ld2sd_rate * InitialAbroad
           < DUST * U64

VARIABLES
    arrived,   \* messages of the program delivered on their chain
    returned,  \* packets the other chains sent to the program
    abroad     \* what the other chains hold

meshVars == <<arrived, returned, abroad>>
allVars  == <<vars, meshVars>>

MeshInit ==
    /\ Init
    /\ arrived = {} /\ returned = {}
    /\ abroad = InitialAbroad

-----------------------------------------------------------------------------

Arrive(m) ==
    /\ m \in outbox \ arrived
    /\ arrived' = arrived \cup {m}
    /\ abroad' = abroad + m.wire
    /\ UNCHANGED <<vars, returned>>

Return(packet) ==
    /\ packet \notin returned
    /\ packet.wire <= abroad
    /\ returned' = returned \cup {packet}
    /\ abroad' = abroad - packet.wire
    /\ UNCHANGED <<vars, arrived>>

Carry(packet) ==
    /\ packet \in returned
    /\ Verify(packet)
    /\ UNCHANGED meshVars

ProgramSide ==
    /\ \/ AdminNext \/ PeerNext \/ TokenNext
       \/ Tick
       \/ \E fee \in TransferFees : TransferFeeChange(fee)
       \/ \E eid \in Eids, way \in Ways : Mark(eid, way)
    /\ UNCHANGED meshVars

MeshNext ==
    \/ ProgramSide
    \/ \E m \in outbox : Arrive(m)
    \/ \E packet \in Packets : Return(packet) \/ Carry(packet)

MeshSpec == MeshInit /\ [][MeshNext]_allVars

-----------------------------------------------------------------------------
(* Properties.                                                             *)

Due == SumOfWires(returned \ cleared)

\* All that is on its way back, wherever it is, can be given out together: an
\* Adapter has it locked, and a Native OFT can mint it.
ReturnsAreBacked ==
    IF OftType = Adapter
    THEN Due <= IF oft_store = None THEN 0 ELSE oft_store.tvl_ld
    ELSE Supply + Due < U64

\* Its inductive form, with TransitInv: what was sent back and is held abroad
\* came from here or was there at first, up to what the wire's decimals lose.
MeshInv ==
    /\ abroad \in Nat
    /\ arrived \subseteq outbox
    /\ returned \subseteq Packets /\ IsFiniteSet(returned)
    /\ verified \cup cleared \subseteq returned
    /\ \A m \in outbox : DUST * amount_of(m.wire) = ld2sd_rate * m.wire
    /\ DUST * SumOfWires(returned) + ld2sd_rate * abroad
         <= DUST * SumOfWires(arrived) + ld2sd_rate * InitialAbroad

=============================================================================
