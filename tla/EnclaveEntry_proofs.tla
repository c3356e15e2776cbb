------------------------ MODULE EnclaveEntry_proofs ------------------------
(***************************************************************************)
(* EENTER, EEXIT and ERESUME keep a stack of calls for every TCS, for any  *)
(* number of threads, frames and contexts.                                 *)
(***************************************************************************)
EXTENDS EnclaveEntry, SequenceTheorems, TLAPS

Frame == [ursp : Sps, rip : Eips, regs : Regs, exit : Eips]

(***************************************************************************)
(* The inductive invariant.  RunsInFirstFreeFrame needs to know that a     *)
(* running enclave has a frame left to be saved in: EENTER checks it,      *)
(* ERESUME makes room for it, and EEXIT, which checks nothing, uses it up. *)
(***************************************************************************)
FrameLeft == inside => cssa[tcsLa] < Nssa

CInv == TypeOK /\ RunsInFirstFreeFrame /\ FrameLeft

(* A frame with some of its fields rewritten is a frame again.             *)
LEMMA FrameType ==
  ASSUME TypeOK, NEW t \in Threads, NEW n \in Frames, NEW f \in Frame
  PROVE  [ssa EXCEPT ![t][n] = f] \in [Threads -> [Frames -> Frame]]
<1>1. ssa[t] \in [Frames -> Frame]
  BY DEF TypeOK, Frame
<1>2. [ssa[t] EXCEPT ![n] = f] \in [Frames -> Frame]
  BY <1>1
<1> QED
  BY <1>2 DEF TypeOK, Frame

(* The contexts the processor and the save areas may hold.                 *)
LEMMA ContextTypes ==
  /\ \A c \in Callers : c.eip \in Eips /\ c.regs \in Sps
  /\ \A c \in Contexts : c.eip \in Eips /\ c.regs \in Regs
  /\ EntryPoint.eip \in Eips /\ Trampoline \in Eips
  /\ Zero.eip \in Eips /\ Zero.regs \in Regs
BY DEF Eips, Sps, Regs

(* A processor without enclaves satisfies the invariant.                   *)
LEMMA InitCInv == Init => CInv
<1> SUFFICES ASSUME Init PROVE CInv
  OBVIOUS
<1>1. ZeroFrame \in Frame
  BY ContextTypes DEF ZeroFrame, Frame, Sps
<1>2. /\ ssa \in [Threads -> [Frames -> Frame]]
      /\ cssa \in [Threads -> 0 .. Nssa]
      /\ gprPa \in 0 .. Nssa - 1
  BY <1>1, NssaAssumption DEF Init
<1>3. cpu.eip \in Eips /\ exitEip \in Eips
  BY ContextTypes DEF Init
<1>4. TypeOK
  BY <1>2, <1>3 DEF Init, TypeOK, Frame
<1> QED
  BY <1>4 DEF Init, CInv, RunsInFirstFreeFrame, FrameLeft

(* Each instruction preserves it.                                          *)
LEMMA CallsCInv == CInv /\ [Calls]_vars => CInv'
<1> SUFFICES ASSUME CInv, Calls PROVE CInv'
  BY DEF CInv, TypeOK, RunsInFirstFreeFrame, FrameLeft, vars
<1>t. /\ cssa \in [Threads -> 0 .. Nssa] /\ Nssa \in Nat \ {0}
      /\ ssa \in [Threads -> [Frames -> Frame]]
  BY NssaAssumption DEF CInv, TypeOK, Frame
<1>1. ASSUME NEW t \in Threads, NEW from \in Callers, EENTER(t, from)
      PROVE  CInv'
  <2>1. cssa[t] \in Frames /\ cssa[t] \in 0 .. Nssa - 1
    BY <1>1, <1>t DEF EENTER, Frames
  <2>2. [ssa[t][cssa[t]] EXCEPT !.ursp = from.regs] \in Frame
    BY <1>t, <2>1, ContextTypes DEF Frame
  <2>3. ssa' \in [Threads -> [Frames -> Frame]]
    BY <1>1, <2>1, <2>2, FrameType DEF EENTER, CInv
  <2>4. TypeOK'
    BY <1>1, <2>1, <2>3, ContextTypes DEF EENTER, TypeOK, CInv, Frame
  <2> QED
    BY <1>1, <2>4 DEF EENTER, CInv, RunsInFirstFreeFrame, FrameLeft
<1>2. ASSUME EexitHome PROVE CInv'
  <2>1. TypeOK'
    BY <1>2 DEF EexitHome, TypeOK, CInv
  <2> QED
    BY <1>2, <2>1 DEF EexitHome, CInv, RunsInFirstFreeFrame, FrameLeft
<1>3. ASSUME NEW at \in Contexts, EexitTrampoline(at)
      PROVE  CInv'
  <2>1. /\ tcsLa \in Threads /\ gprPa = cssa[tcsLa]
        /\ cssa[tcsLa] \in 0 .. Nssa - 1 /\ gprPa \in Frames
    BY <1>3, <1>t DEF EexitTrampoline, CInv, RunsInFirstFreeFrame, FrameLeft, Frames
  <2>2. [saveState(ssa[tcsLa][gprPa], at.regs) EXCEPT !.exit = exitEip, !.rip = at.eip] \in Frame
    <3>1. saveState(ssa[tcsLa][gprPa], at.regs) \in Frame
      BY <1>t, <2>1, ContextTypes DEF saveState, Frame
    <3>2. exitEip \in Eips
      BY DEF CInv, TypeOK
    <3> QED
      BY <3>1, <3>2, ContextTypes DEF Frame
  <2>3. ssa' \in [Threads -> [Frames -> Frame]]
    BY <1>3, <2>1, <2>2, FrameType DEF EexitTrampoline, CInv
  <2>4. cssa' \in [Threads -> 0 .. Nssa]
    BY <1>3, <1>t, <2>1 DEF EexitTrampoline
  <2>5. TypeOK'
    BY <1>3, <2>3, <2>4, ContextTypes DEF EexitTrampoline, TypeOK, CInv, Frame
  <2> QED
    BY <1>3, <2>5 DEF EexitTrampoline, CInv, RunsInFirstFreeFrame, FrameLeft
<1>4. ASSUME NEW t \in Threads, ERESUME(t)
      PROVE  CInv'
  <2>1. cssa[t] - 1 \in 0 .. Nssa - 1 /\ cssa[t] - 1 \in Frames
    BY <1>4, <1>t DEF ERESUME, Frames
  <2>2. Resumed(t) \in Frame
    BY <1>t, <2>1 DEF Resumed
  <2>3. cssa' \in [Threads -> 0 .. Nssa] /\ cssa'[t] = cssa[t] - 1
    BY <1>4, <1>t, <2>1 DEF ERESUME
  <2>4. TypeOK'
    BY <1>4, <2>1, <2>2, <2>3 DEF ERESUME, TypeOK, CInv, Frame
  <2> QED
    BY <1>4, <2>1, <2>3, <2>4, <1>t DEF ERESUME, CInv, RunsInFirstFreeFrame, FrameLeft
<1> QED
  BY <1>1, <1>2, <1>3, <1>4 DEF Calls

(* The invariant holds in every behaviour without exceptions.              *)
THEOREM CallInvariance == CallSpec => []CInv
BY InitCInv, CallsCInv, PTL DEF CallSpec

(***************************************************************************)
(* The registers and save areas keep their types: no sequence of EENTER,   *)
(* EEXIT and ERESUME moves cssa below zero or past the frames of its TCS.  *)
(***************************************************************************)
THEOREM EntryTypes == CallSpec => []TypeOK
<1>1. CInv => TypeOK
  BY DEF CInv
<1> QED
  BY <1>1, CallInvariance, PTL

(***************************************************************************)
(* A running enclave is saved into the first frame above the suspended     *)
(* calls of its TCS, however calls through several TCSs were nested.       *)
(***************************************************************************)
THEOREM FirstFreeFrame == CallSpec => []RunsInFirstFreeFrame
<1>1. CInv => RunsInFirstFreeFrame
  BY DEF CInv
<1> QED
  BY <1>1, CallInvariance, PTL

-----------------------------------------------------------------------------
(***************************************************************************)
(* The refinement: the save areas and control registers implement the      *)
(* stacks of calls of EnclaveCalls.                                        *)
(***************************************************************************)
(* A function on 1 .. d is a sequence.                                     *)
LEMMA StackIsSeq ==
  ASSUME NEW d \in Nat, NEW S, NEW f \in [1 .. d -> S]
  PROVE  f \in Seq(S) /\ Len(f) = d
BY SMT

(* What pushing a call on such a stack gives.                              *)
LEMMA StackAppend ==
  ASSUME NEW d \in Nat, NEW S, NEW f \in [1 .. d -> S], NEW x \in S
  PROVE  Append(f, x) = [n \in 1 .. d + 1 |-> IF n <= d THEN f[n] ELSE x]
<1> DEFINE g == [n \in 1 .. d + 1 |-> IF n <= d THEN f[n] ELSE x]
<1>1. f \in Seq(S) /\ Len(f) = d
  BY StackIsSeq
<1>2. Append(f, x) \in Seq(S) /\ Len(Append(f, x)) = d + 1
  BY <1>1
<1>3. g \in [1 .. d + 1 -> S]
  OBVIOUS
<1>4. g \in Seq(S) /\ Len(g) = d + 1
  <2> HIDE DEF g
  <2> QED BY <1>3, StackIsSeq
<1>5. ASSUME NEW n \in 1 .. d + 1 PROVE Append(f, x)[n] = g[n]
  BY <1>1
<1> HIDE DEF g
<1>6. Append(f, x) = g
  BY <1>2, <1>4, <1>5, SeqEqual
<1> QED
  BY <1>6 DEF g

(* What dropping the newest call gives.                                    *)
LEMMA StackPop ==
  ASSUME NEW d \in Nat \ {0}, NEW S, NEW f \in [1 .. d -> S]
  PROVE  SubSeq(f, 1, Len(f) - 1) = [n \in 1 .. d - 1 |-> f[n]]
<1>1. f \in Seq(S) /\ Len(f) = d
  BY StackIsSeq
<1> QED
  BY <1>1

(* What changing the context of the newest call gives.                     *)
LEMMA StackTop ==
  ASSUME NEW d \in Nat \ {0}, NEW f, NEW g, NEW x,
         f = [n \in 1 .. d |-> f[n]], g = [n \in 1 .. d |-> g[n]],
         \A n \in 1 .. d : n # d => g[n] = f[n],
         g[d] = [f[d] EXCEPT !.at = x]
  PROVE  g = [f EXCEPT ![d].at = x]
<1> DEFINE y == [f[d] EXCEPT !.at = x]
<1>1. g[d] = y
  OBVIOUS
<1> HIDE DEF y
<1>2. g = [f EXCEPT ![d] = y]
  BY <1>1
<1> QED
  BY <1>2 DEF y

(* The stack of TCS t, and its length.                                     *)
LEMMA StackOf ==
  ASSUME CInv, NEW t \in Threads
  PROVE  /\ Depth(t) \in Nat /\ Len(CallStacks[t]) = Depth(t)
         /\ CallStacks[t] = [n \in 1 .. Depth(t) |-> CallAt(t, n)]
         /\ CallStacks[t] \in [1 .. Depth(t) -> {CallAt(t, n) : n \in 1 .. Depth(t)}]
<1>1. Depth(t) \in Nat
  BY NssaAssumption DEF CInv, TypeOK, Depth
<1>2. CallStacks[t] = [n \in 1 .. Depth(t) |-> CallAt(t, n)]
  BY DEF CallStacks
<1>3. CallStacks[t] \in [1 .. Depth(t) -> {CallAt(t, n) : n \in 1 .. Depth(t)}]
  BY <1>2
<1> QED
  BY <1>1, <1>2, <1>3, StackIsSeq

(* At the start no TCS has a call.                                         *)
LEMMA RefinesInit == Init => Abstract!CallsInit
<1> SUFFICES ASSUME Init PROVE Abstract!CallsInit
  OBVIOUS
<1>1. \A t \in Threads : Depth(t) = 0
  BY DEF Init, Depth
<1>2. ASSUME NEW t \in Threads PROVE CallStacks[t] = << >>
  BY <1>1 DEF CallStacks
<1>3. CallStacks = [t \in Threads |-> << >>]
  BY <1>2 DEF CallStacks
<1> QED
  BY <1>3 DEF Init, RunningThread, Abstract!CallsInit

(* EENTER pushes the caller's context.                                     *)
LEMMA EenterCallsIn ==
  ASSUME CInv, NEW t \in Threads, NEW from \in Callers, EENTER(t, from)
  PROVE  Abstract!CallIn(t, from)
<1> DEFINE new == Abstract!Call(from, EntryPoint)
           S == {CallAt(t, n) : n \in 1 .. Depth(t)} \cup {new}
<1>1. /\ cssa \in [Threads -> 0 .. Nssa] /\ Nssa \in Nat \ {0}
      /\ ssa \in [Threads -> [Frames -> Frame]]
      /\ cssa[t] \in Frames
  BY NssaAssumption DEF CInv, TypeOK, Frame, Frames
<1>2. /\ \A u \in Threads : Depth(u) = cssa[u]
      /\ \A u \in Threads \ {t} : Depth(u)' = cssa[u]
      /\ Depth(t)' = cssa[t] + 1
  BY DEF EENTER, Depth
<1>3. /\ \A u \in Threads \ {t} : ssa'[u] = ssa[u]
      /\ \A n \in Frames \ {cssa[t]} : ssa'[t][n] = ssa[t][n]
      /\ ssa'[t][cssa[t]].ursp = from.regs
  BY <1>1 DEF EENTER, Frame
<1>4. ASSUME NEW u \in Threads, NEW n \in 1 .. cssa[u]
      PROVE  CallAt(u, n)' = CallAt(u, n)
  <2>1. ssa'[u][n - 1] = ssa[u][n - 1] /\ cssa'[u] = cssa[u] /\ n <= cssa[u]
    BY <1>1, <1>3 DEF EENTER, Frames
  <2> QED
    BY <2>1 DEF CallAt
<1>5. ASSUME NEW n \in Nat, n = cssa[t] + 1
      PROVE  CallAt(t, n)' = new
  <2>1. from = [eip |-> from.eip, regs |-> from.regs]
    BY CallersAssumption DEF IsContext
  <2>2. n - 1 = cssa[t] /\ ~ (n <= cssa'[t])
    <3>1. cssa' = cssa
      BY DEF EENTER
    <3>2. cssa[t] \in Nat
      BY <1>1
    <3> QED
      BY <3>1, <3>2, <1>5
  <2>3. CallAt(t, n)'
          = [from |-> [eip |-> from.eip, regs |-> from.regs], at |-> EntryPoint]
    BY <1>3, <2>2 DEF CallAt, EENTER
  <2> QED
    BY <2>1, <2>3 DEF Abstract!Call
<1>6. ASSUME NEW u \in Threads \ {t} PROVE CallStacks'[u] = CallStacks[u]
  BY <1>2, <1>4 DEF CallStacks
<1>7. CallStacks'[t] = Append(CallStacks[t], new)
  <2>1. CallStacks[t] \in [1 .. cssa[t] -> S] /\ new \in S /\ cssa[t] \in Nat
    BY <1>1, <1>2, StackOf
  <2> HIDE DEF S, new
  <2>2. Append(CallStacks[t], new)
          = [n \in 1 .. cssa[t] + 1 |-> IF n <= cssa[t] THEN CallStacks[t][n] ELSE new]
    BY <2>1, StackAppend
  <2>3. CallStacks'[t] = [n \in 1 .. cssa[t] + 1 |-> CallAt(t, n)']
    BY <1>2 DEF CallStacks
  <2>4. ASSUME NEW n \in 1 .. cssa[t] + 1
        PROVE  CallAt(t, n)' = IF n <= cssa[t] THEN CallStacks[t][n] ELSE new
    <3>1. CASE n <= cssa[t]
      <4>1. CallAt(t, n)' = CallAt(t, n)
        BY <3>1, <1>1, <1>4
      <4> QED
        BY <4>1, <3>1, <1>1, <1>2 DEF CallStacks
    <3>2. CASE n = cssa[t] + 1
      <4>1. CallAt(t, n)' = new
        BY <3>2, <1>1, <1>5
      <4> QED
        BY <4>1, <3>2, <1>1
    <3> QED
      BY <3>1, <3>2, <1>1
  <2> QED
    BY <2>2, <2>3, <2>4
<1>8. CallStacks' = [CallStacks EXCEPT ![t] = Append(@, new)]
  BY <1>6, <1>7 DEF CallStacks
<1>9. Len(CallStacks[t]) < Nssa
  BY <1>2, StackOf DEF EENTER
<1> QED
  BY <1>8, <1>9 DEF EENTER, RunningThread, Abstract!CallIn

(* EEXIT to the trampoline keeps the caller of the running call and fills  *)
(* in the context it is suspended in.                                      *)
LEMMA EexitCallsOut ==
  ASSUME CInv, NEW at \in Contexts, EexitTrampoline(at)
  PROVE  Abstract!CallOut(at)
<1>1. /\ cssa \in [Threads -> 0 .. Nssa] /\ Nssa \in Nat \ {0}
      /\ ssa \in [Threads -> [Frames -> Frame]]
      /\ tcsLa \in Threads /\ inside /\ gprPa = cssa[tcsLa]
      /\ cssa[tcsLa] \in Frames /\ cssa[tcsLa] \in Nat
      /\ tcsLa # NoThread
  BY NssaAssumption, ThreadsAssumption
     DEF CInv, TypeOK, Frame, Frames, RunsInFirstFreeFrame, EexitTrampoline
<1>0. PICK t \in Threads : t = tcsLa
  BY <1>1
<1>2. /\ cssa'[t] = cssa[t] + 1
      /\ \A u \in Threads \ {t} : cssa'[u] = cssa[u]
      /\ tcsLa = t /\ tcsLa' = t /\ inside' = FALSE /\ exitEip' = Trampoline
  BY <1>0, <1>1 DEF EexitTrampoline
<1>3. /\ \A u \in Threads : Depth(u)' = Depth(u)
      /\ Depth(t) = cssa[t] + 1
      /\ \A u \in Threads \ {t} : Depth(u) = cssa[u]
  BY <1>0, <1>1, <1>2 DEF Depth
<1>4. /\ \A u \in Threads \ {t} : ssa'[u] = ssa[u]
      /\ \A n \in Frames \ {cssa[t]} : ssa'[t][n] = ssa[t][n]
      /\ ssa'[t][cssa[t]].ursp = ssa[t][cssa[t]].ursp
      /\ ssa'[t][cssa[t]].exit = exitEip
      /\ ssa'[t][cssa[t]].rip = at.eip
      /\ ssa'[t][cssa[t]].regs = at.regs
  BY <1>0, <1>1 DEF EexitTrampoline, Frame, saveState
<1>5. ASSUME NEW u \in Threads, NEW n \in 1 .. cssa[u]
      PROVE  CallAt(u, n)' = CallAt(u, n)
  <2>1. cssa[u] \in 0 .. Nssa
    BY <1>1
  <2>2. n - 1 \in Frames /\ n - 1 # cssa[u] /\ n <= cssa[u] /\ n <= cssa[u] + 1
    BY <2>1, <1>0, <1>1 DEF Frames
  <2>3. ssa'[u][n - 1] = ssa[u][n - 1]
    BY <2>2, <1>4
  <2>4. n <= cssa'[u]
    BY <2>1, <2>2, <1>2
  <2> QED
    BY <2>2, <2>3, <2>4 DEF CallAt
<1>6. ASSUME NEW n \in Nat, n = cssa[t] + 1
      PROVE  /\ CallAt(t, n)' = [CallAt(t, n) EXCEPT !.at = at]
             /\ CallAt(t, n).from.regs = ssa[t][gprPa].ursp
  <2>1. at = [eip |-> at.eip, regs |-> at.regs]
    BY ContextsAssumption DEF IsContext
  <2>2. n - 1 = cssa[t] /\ ~ (n <= cssa[t]) /\ n <= cssa'[t]
    BY <1>0, <1>1, <1>2, <1>6
  <2>3. CallAt(t, n)
          = [from |-> [eip |-> exitEip, regs |-> ssa[t][cssa[t]].ursp], at |-> EntryPoint]
    BY <2>2 DEF CallAt
  <2>4. CallAt(t, n)'
          = [from |-> [eip |-> exitEip, regs |-> ssa[t][cssa[t]].ursp],
             at |-> [eip |-> at.eip, regs |-> at.regs]]
    BY <1>2, <1>4, <2>2 DEF CallAt
  <2> QED
    BY <1>0, <1>1, <2>1, <2>3, <2>4
<1>7. ASSUME NEW u \in Threads \ {t} PROVE CallStacks'[u] = CallStacks[u]
  BY <1>3, <1>5 DEF CallStacks
<1>8. CallStacks'[t] = [CallStacks[t] EXCEPT ![Len(CallStacks[t])].at = at]
  <2>1. Len(CallStacks[t]) = cssa[t] + 1 /\ cssa[t] + 1 \in Nat \ {0}
    <3>1. Len(CallStacks[t]) = Depth(t)
      BY StackOf
    <3>2. Depth(t) = cssa[t] + 1
      BY <1>3
    <3>3. cssa[t] + 1 \in Nat \ {0}
      BY <1>0, <1>1
    <3> QED
      BY <3>1, <3>2, <3>3
  <2>2. CallStacks'[t] = [n \in 1 .. cssa[t] + 1 |-> CallAt(t, n)']
    BY <1>0, <1>1, <1>2, <1>3 DEF CallStacks
  <2>3. CallStacks[t] = [n \in 1 .. cssa[t] + 1 |-> CallAt(t, n)]
    BY <1>0, <1>1, <1>3 DEF CallStacks
  <2>4. /\ CallStacks[t] = [n \in 1 .. cssa[t] + 1 |-> CallStacks[t][n]]
        /\ CallStacks'[t] = [n \in 1 .. cssa[t] + 1 |-> CallStacks'[t][n]]
    BY <2>2, <2>3
  <2>5. ASSUME NEW n \in 1 .. cssa[t] + 1, n # cssa[t] + 1
        PROVE  CallStacks'[t][n] = CallStacks[t][n]
    <3>1. n \in 1 .. cssa[t]
      BY <2>5, <1>0, <1>1
    <3>2. CallAt(t, n)' = CallAt(t, n)
      BY <3>1, <1>5
    <3> QED
      BY <3>2, <2>2, <2>3
  <2>6. CallStacks'[t][cssa[t] + 1] = [CallStacks[t][cssa[t] + 1] EXCEPT !.at = at]
    <3>1. PICK n \in Nat : n = cssa[t] + 1
      BY <2>1
    <3>2. CallAt(t, n)' = [CallAt(t, n) EXCEPT !.at = at]
      BY <3>1, <1>6
    <3>3. CallStacks'[t][n] = CallAt(t, n)' /\ CallStacks[t][n] = CallAt(t, n)
      BY <3>1, <2>1, <2>2, <2>3
    <3> QED
      BY <3>1, <3>2, <3>3
  <2> QED
    BY <2>1, <2>4, <2>5, <2>6, StackTop
<1>9. CallStacks' = [CallStacks EXCEPT ![t][Len(CallStacks[t])].at = at]
  <2> DEFINE new == [CallStacks[t] EXCEPT ![Len(CallStacks[t])].at = at]
  <2>1. CallStacks'[t] = new
    BY <1>8
  <2> HIDE DEF new
  <2>2. CallStacks' = [CallStacks EXCEPT ![t] = new]
    BY <1>7, <2>1 DEF CallStacks
  <2> QED
    BY <2>2 DEF new
<1>10. cpu' = [eip |-> Trampoline, regs |-> Abstract!Newest(t).from.regs - 1]
  <2>1. PICK n \in Nat : n = cssa[t] + 1
    BY <1>0, <1>1
  <2>2. Abstract!Newest(t) = CallAt(t, n)
    <3>1. Len(CallStacks[t]) = Depth(t) /\ n = Depth(t)
      BY <2>1, <1>3, StackOf
    <3>2. n \in 1 .. Depth(t)
      BY <3>1, <2>1, <1>0, <1>1
    <3> QED
      BY <3>1, <3>2 DEF Abstract!Newest, CallStacks
  <2>3. CallAt(t, n).from.regs = ssa[t][gprPa].ursp
    BY <2>1, <1>6
  <2> QED
    BY <2>2, <2>3, <1>0 DEF EexitTrampoline
<1> QED
  BY <1>9, <1>10, <1>0, <1>1, <1>2 DEF RunningThread, Abstract!CallOut

(* ERESUME continues the newest call of its TCS in the context it was      *)
(* suspended in, and keeps its caller.                                     *)
LEMMA EresumeReturnsIn ==
  ASSUME CInv, NEW t \in Threads, ERESUME(t)
  PROVE  Abstract!ReturnIn(t)
<1>1. /\ cssa \in [Threads -> 0 .. Nssa] /\ Nssa \in Nat \ {0}
      /\ cssa[t] \in Nat \ {0}
      /\ ssa' = ssa /\ ~inside /\ inside' /\ tcsLa' = t
  BY NssaAssumption DEF CInv, TypeOK, ERESUME
<1>2. /\ cssa'[t] = cssa[t] - 1
      /\ \A u \in Threads \ {t} : cssa'[u] = cssa[u]
      /\ exitEip' = ssa[t][cssa[t] - 1].exit
      /\ cpu' = [eip |-> ssa[t][cssa[t] - 1].rip, regs |-> ssa[t][cssa[t] - 1].regs]
  BY <1>1 DEF ERESUME, Resumed
<1>3. /\ \A u \in Threads : Depth(u) = cssa[u]
      /\ \A u \in Threads : Depth(u)' = cssa[u]
  BY <1>1, <1>2 DEF Depth
<1>4. ASSUME NEW u \in Threads, NEW n \in 1 .. cssa[u], u # t \/ n # cssa[t]
      PROVE  CallAt(u, n)' = CallAt(u, n)
  <2>1. cssa[u] \in 0 .. Nssa
    BY <1>1
  <2>2. n <= cssa[u] /\ n <= cssa'[u]
    BY <2>1, <1>2, <1>4
  <2> QED
    BY <2>2, <1>1 DEF CallAt
<1>5. ASSUME NEW n \in Nat, n = cssa[t]
      PROVE  /\ CallAt(t, n)' = [CallAt(t, n) EXCEPT !.at = EntryPoint]
             /\ CallAt(t, n).at = cpu'
  <2>1. n <= cssa[t] /\ ~ (n <= cssa'[t])
    BY <1>1, <1>2, <1>5
  <2>2. CallAt(t, n)
          = [from |-> [eip |-> ssa[t][n - 1].exit, regs |-> ssa[t][n - 1].ursp],
             at |-> [eip |-> ssa[t][n - 1].rip, regs |-> ssa[t][n - 1].regs]]
    BY <2>1 DEF CallAt
  <2>3. CallAt(t, n)'
          = [from |-> [eip |-> ssa[t][n - 1].exit, regs |-> ssa[t][n - 1].ursp],
             at |-> EntryPoint]
    BY <1>1, <1>2, <1>5, <2>1 DEF CallAt
  <2> QED
    BY <1>2, <1>5, <2>2, <2>3
<1>6. ASSUME NEW u \in Threads \ {t} PROVE CallStacks'[u] = CallStacks[u]
  BY <1>3, <1>4 DEF CallStacks
<1>7. Len(CallStacks[t]) = cssa[t]
  BY <1>3, StackOf
<1>8. /\ CallStacks'[t] = [n \in 1 .. cssa[t] |-> CallAt(t, n)']
      /\ CallStacks[t] = [n \in 1 .. cssa[t] |-> CallAt(t, n)]
  BY <1>3 DEF CallStacks
<1>9. CallStacks'[t] = [CallStacks[t] EXCEPT ![Len(CallStacks[t])].at = EntryPoint]
  <2>1. /\ CallStacks[t] = [n \in 1 .. cssa[t] |-> CallStacks[t][n]]
        /\ CallStacks'[t] = [n \in 1 .. cssa[t] |-> CallStacks'[t][n]]
    BY <1>8
  <2>2. ASSUME NEW n \in 1 .. cssa[t], n # cssa[t]
        PROVE  CallStacks'[t][n] = CallStacks[t][n]
    <3>1. CallAt(t, n)' = CallAt(t, n)
      BY <2>2, <1>4
    <3> QED
      BY <3>1, <1>8
  <2>3. CallStacks'[t][cssa[t]] = [CallStacks[t][cssa[t]] EXCEPT !.at = EntryPoint]
    <3>1. PICK n \in Nat \ {0} : n = cssa[t]
      BY <1>1
    <3>2. CallAt(t, n)' = [CallAt(t, n) EXCEPT !.at = EntryPoint]
      BY <3>1, <1>5
    <3>3. CallStacks'[t][n] = CallAt(t, n)' /\ CallStacks[t][n] = CallAt(t, n)
      BY <3>1, <1>8
    <3> QED
      BY <3>1, <3>2, <3>3
  <2> QED
    BY <1>1, <1>7, <2>1, <2>2, <2>3, StackTop
<1>10. CallStacks' = [CallStacks EXCEPT ![t][Len(CallStacks[t])].at = EntryPoint]
  <2> DEFINE new == [CallStacks[t] EXCEPT ![Len(CallStacks[t])].at = EntryPoint]
  <2>1. CallStacks'[t] = new
    BY <1>9
  <2> HIDE DEF new
  <2>2. CallStacks' = [CallStacks EXCEPT ![t] = new]
    BY <1>6, <2>1 DEF CallStacks
  <2> QED
    BY <2>2 DEF new
<1>11. cpu' = Abstract!Newest(t).at
  <2>1. PICK n \in Nat \ {0} : n = cssa[t]
    BY <1>1
  <2>2. Abstract!Newest(t) = CallAt(t, n)
    BY <2>1, <1>7, <1>8 DEF Abstract!Newest
  <2> QED
    BY <2>1, <2>2, <1>5
<1>12. CallStacks[t] # << >>
  BY <1>1, <1>7
<1> QED
  BY <1>1, <1>10, <1>11, <1>12 DEF RunningThread, Abstract!ReturnIn

(* EEXIT for good drops the newest call and continues its caller.          *)
LEMMA EexitLeaves ==
  ASSUME CInv, EexitHome
  PROVE  Abstract!Leave
<1>1. /\ cssa \in [Threads -> 0 .. Nssa] /\ Nssa \in Nat \ {0}
      /\ tcsLa \in Threads /\ inside /\ gprPa = cssa[tcsLa]
      /\ tcsLa # NoThread /\ tcsLa' = tcsLa /\ ~inside'
      /\ ssa' = ssa /\ cssa' = cssa /\ exitEip' = exitEip
      /\ cpu' = [eip |-> exitEip, regs |-> ssa[tcsLa][gprPa].ursp]
  BY NssaAssumption, ThreadsAssumption
     DEF CInv, TypeOK, RunsInFirstFreeFrame, EexitHome
<1>2. PICK t \in Threads : t = tcsLa
  BY <1>1
<1>3. PICK d \in Nat : d = cssa[t]
  BY <1>1
<1>4. /\ Depth(t) = d + 1 /\ Depth(t)' = d
      /\ \A u \in Threads \ {t} : Depth(u)' = Depth(u)
  BY <1>1, <1>2, <1>3 DEF Depth
<1>5. ASSUME NEW u \in Threads, NEW n PROVE CallAt(u, n)' = CallAt(u, n)
  BY <1>1 DEF CallAt
<1>6. ASSUME NEW u \in Threads \ {t} PROVE CallStacks'[u] = CallStacks[u]
  BY <1>4, <1>5 DEF CallStacks
<1>7. /\ CallStacks'[t] = [n \in 1 .. d |-> CallAt(t, n)']
      /\ CallStacks[t] = [n \in 1 .. d + 1 |-> CallAt(t, n)]
  BY <1>4 DEF CallStacks
<1>8. CallStacks[t] \in [1 .. d + 1 -> {CallAt(t, n) : n \in 1 .. d + 1}]
  BY <1>7
<1>9. CallStacks'[t] = SubSeq(CallStacks[t], 1, Len(CallStacks[t]) - 1)
  <2>1. d + 1 \in Nat \ {0} /\ d + 1 - 1 = d
    OBVIOUS
  <2>2. SubSeq(CallStacks[t], 1, Len(CallStacks[t]) - 1) = [n \in 1 .. d |-> CallStacks[t][n]]
    BY <1>8, <2>1, StackPop
  <2>3. ASSUME NEW n \in 1 .. d PROVE CallStacks[t][n] = CallAt(t, n)'
    BY <1>5, <1>7
  <2> QED
    BY <1>7, <2>2, <2>3
<1>10. CallStacks' = [CallStacks EXCEPT ![t] = SubSeq(@, 1, Len(@) - 1)]
  BY <1>6, <1>9 DEF CallStacks
<1>11. cpu' = Abstract!Newest(t).from
  <2>1. Len(CallStacks[t]) = d + 1
    BY <1>8, StackIsSeq
  <2>2. Abstract!Newest(t) = CallAt(t, d + 1)
    BY <2>1, <1>7 DEF Abstract!Newest
  <2>3. ~ (d + 1 <= cssa[t]) /\ d + 1 - 1 = gprPa
    BY <1>1, <1>2, <1>3
  <2>4. CallAt(t, d + 1).from = [eip |-> exitEip, regs |-> ssa[t][gprPa].ursp]
    BY <2>3 DEF CallAt
  <2> QED
    BY <2>2, <2>4, <1>1, <1>2
<1> QED
  BY <1>1, <1>2, <1>10, <1>11 DEF RunningThread, Abstract!Leave

(***************************************************************************)
(* Every step of EENTER, EEXIT and ERESUME is a step of the stacks of      *)
(* calls: whatever the number of TCSs, frames and contexts and however the *)
(* calls through them nest, the enclave continues after an outward call    *)
(* with the registers it had, and the host after an inward call at its     *)
(* return address and on its stack.                                        *)
(***************************************************************************)
THEOREM CallsRefine == CallSpec => CallsNest
<1>1. Init => Abstract!CallsInit
  BY RefinesInit
<1>2. CInv /\ [Calls]_vars => [Abstract!CallsNext]_Abstract!callVars
  <2> SUFFICES ASSUME CInv, [Calls]_vars
               PROVE  Abstract!CallsNext \/ UNCHANGED Abstract!callVars
    OBVIOUS
  <2>1. CASE Calls
    BY <2>1, EenterCallsIn, EexitCallsOut, EresumeReturnsIn, EexitLeaves
       DEF Calls, Abstract!CallsNext
  <2>2. CASE UNCHANGED vars
    BY <2>2 DEF vars, Abstract!callVars, CallStacks, RunningThread, Depth, CallAt
  <2> QED
    BY <2>1, <2>2
<1> QED
  BY <1>1, <1>2, CallInvariance, PTL DEF CallSpec, CallsNest, Abstract!CallsSpec
=============================================================================
