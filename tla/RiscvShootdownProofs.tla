------------------------ MODULE RiscvShootdownProofs ------------------------
(***************************************************************************)
(* What RiscvShootdown guarantees for any number of harts and frames.      *)
(* CoherentBetweenOperations speaks of the end of an operation only; what  *)
(* is inductive says how far the operation under way has got: which store  *)
(* may still sit in a buffer, and which harts it has already fenced.       *)
(***************************************************************************)
EXTENDS RiscvShootdown, TLAPS

\* A store waits in a buffer only between the store and the fence.
StoreBeforeFence ==
  \A h \in Harts : buffer[h] # None => pc = "fence" /\ lock = h

\* The harts that hold no old value, by where the operation stands.
FencedSoFar ==
  \A h \in Harts :
    \/ pc \in {"idle", "store"}
    \/ pc = "remote" /\ h = lock
    \/ pc = "wait" /\ h \notin pending
    => tlb[h] \subseteq {pte}

\* The inductive invariant.
IInv ==
  /\ TypeOK
  /\ NothingCachedOutside
  /\ StoreBeforeFence
  /\ FencedSoFar

USE DEF Values, entry, kernel

------------------------------------------------------------------------------
\* IInv holds at the start.
LEMMA IInvInit == Init => IInv
BY RiscvShootdownAssumption
   DEF Init, IInv, TypeOK, NothingCachedOutside, StoreBeforeFence, FencedSoFar

\* A step of any hart, of the firmware or of the hardware preserves IInv.
LEMMA IInvStep == IInv /\ [Next]_vars => IInv'
<1> SUFFICES ASSUME IInv, [Next]_vars
             PROVE  IInv'
  OBVIOUS
<1> USE RiscvShootdownAssumption
<1> USE DEF IInv, TypeOK, NothingCachedOutside, StoreBeforeFence, FencedSoFar
<1>1. CASE BindSpace
  BY <1>1 DEF BindSpace
<1>2. ASSUME NEW h \in Harts, NEW in \in BOOLEAN, SwitchThread(h, in)
      PROVE  IInv'
  BY <1>2 DEF SwitchThread, set_vspace_root
<1>3. ASSUME NEW h \in Harts, NEW in \in BOOLEAN, DeleteAsid(h, in)
      PROVE  IInv'
  BY <1>3 DEF DeleteAsid, set_vspace_root
<1>4. ASSUME NEW h \in Harts, UnmapPage(h)
      PROVE  IInv'
  BY <1>4 DEF UnmapPage
<1>5. ASSUME NEW h \in Harts, NEW f \in Frames, MapPage(h, f)
      PROVE  IInv'
  BY <1>5 DEF MapPage
<1>6. ASSUME NEW h \in Harts, Operation(h)
      PROVE  IInv'
  <2>1. CASE Store(h)
    BY <1>6, <2>1 DEF Store
  <2>2. CASE FenceWRW(h)
    BY <1>6, <2>2 DEF FenceWRW
  <2>3. CASE SfenceLocal(h)
    BY <1>6, <2>3 DEF SfenceLocal
  <2>4. CASE RemoteSfence(h)
    BY <1>6, <2>4 DEF RemoteSfence
  <2>5. CASE Return(h)
    BY <1>6, <2>5 DEF Return
  <2> QED
    BY <1>6, <2>1, <2>2, <2>3, <2>4, <2>5 DEF Operation
<1>7. ASSUME NEW r \in Harts, RemoteFenced(r)
      PROVE  IInv'
  BY <1>7 DEF RemoteFenced
<1>8. ASSUME NEW h \in Harts, Drain(h)
      PROVE  IInv'
  BY <1>8 DEF Drain
<1>9. ASSUME NEW h \in Harts, TlbFill(h)
      PROVE  IInv'
  BY <1>9 DEF TlbFill
<1>10. CASE UNCHANGED vars
  BY <1>10 DEF vars
<1> QED
  BY <1>1, <1>2, <1>3, <1>4, <1>5, <1>6, <1>7, <1>8, <1>9, <1>10 DEF Next

\* Hence it always does.
LEMMA IInvAlways == Spec => []IInv
BY IInvInit, IInvStep, PTL DEF Spec

------------------------------------------------------------------------------
\* Type correctness, and where an operation on an entry may stand.
THEOREM TypeCorrect == Spec => []TypeOK
<1>1. IInv => TypeOK
  BY DEF IInv
<1> QED
  BY <1>1, IInvAlways, PTL

\* unmap_page and the callers of PTE::update return with no hart holding the
\* old value, whatever the harts, the buffers and the TLBs did meanwhile.
THEOREM CoherentWhenDone == Spec => []CoherentBetweenOperations
<1>1. IInv => CoherentBetweenOperations
  BY RiscvShootdownAssumption
     DEF IInv, TypeOK, StoreBeforeFence, FencedSoFar, CoherentBetweenOperations
<1> QED
  BY <1>1, IInvAlways, PTL

\* A hart that left the space took nothing of it along.
THEOREM LeftSpacesAreClean == Spec => []NothingCachedOutside
<1>1. IInv => NothingCachedOutside
  BY DEF IInv
<1> QED
  BY <1>1, IInvAlways, PTL
==============================================================================
