------------------------- MODULE Attestation_proofs -------------------------
(***************************************************************************)
(* Theorems about the attestation programs, for any enclaves, any .conf    *)
(* file, any cutting of messages by the sockets and any process giving up  *)
(* at any point.  Two inductive invariants carry them.  AInv follows the   *)
(* two reports from sgx_report to sgx_match_mac; QInv, which rests on it,  *)
(* follows the two halves of the quote from sgx_make_quote through the     *)
(* target's buffers to the challenger.                                     *)
(***************************************************************************)
EXTENDS Attestation, SgxKeys_proofs, SequenceTheorems

(***************************************************************************)
(* The exchange of reports.  The two sides are connected by Between; each  *)
(* makes its report, reads the other's and verifies it at a fixed place of *)
(* its program.                                                            *)
(***************************************************************************)
Sides    == {Initiator, Responder}
Other(r) == IF r = Initiator THEN Responder ELSE Initiator
Between  == IF mode = "intra" THEN "c" ELSE "q"

ReportAt(r) == IF mode = "intra" /\ r = "challenger" THEN 2 ELSE 5
ReadAt(r)   == IF mode = "remote" /\ r = "target" THEN 6 ELSE 3
VerifyAt(r) == ReadAt(r) + 1

(* The reports the two sides make, and with them every message there is.   *)
TargetOf(r) ==
  IF r = Initiator
  THEN [measurement |-> conf.enclaveHash, attributes |-> conf.attributes,
        miscselect |-> conf.miscselect]
  ELSE [measurement |-> secs[Initiator].mrEnclave, attributes |-> secs[Initiator].attributes,
        miscselect |-> secs[Initiator].miscselect]
MadeBy(r) ==
  [by |-> r, target |-> TargetOf(r), macKey |-> ReportMacKey(secs[r], TargetOf(r))]
ReportOf(r) == Message("report", MadeBy(r))
QuoteOf     == Message("quote", MadeBy(Initiator))

Msg  == {Message(k, None) : k \in {"challenge", "Good", "N", "E", "zeros"}}
          \cup {ReportOf(Initiator), ReportOf(Responder), QuoteOf}
Unit == [of : Msg, part : 0 .. 2]

-----------------------------------------------------------------------------
(* The inductive invariant.                                                *)
Typed ==
  /\ mode \in {"intra", "remote"}
  /\ pc \in [Role -> Nat] /\ result \in [Role -> {"running", "ok", "failed", "killed"}]
  /\ wire \in [Conn -> [Role -> Seq(Unit)]] /\ mem \in [Role -> [Slot -> Seq(Unit)]]
  /\ key = [e \in Role |-> key[e]]

(* A process is somewhere in its program, and at its end when it returned. *)
Control ==
  \A r \in Role :
    \/ mode = "intra" /\ r = "quote" /\ result[r] = "ok"
    \/ pc[r] \in 1 .. Len(Program(r)) /\ (result[r] = "ok" => pc[r] = Len(Program(r)))

Sent(r) == pc[r] > ReportAt(r) \/ result[r] = "ok"

(* What r is about to read begins with the report of o.                    *)
ReportAhead(r, o) ==
  LET w == wire[Between][r]
  IN  Len(w) >= 2 /\ w[1] = Units(ReportOf(o))[1] /\ w[2] = Units(ReportOf(o))[2]

(* Until r has read it, the report of the other side, once it is sent, is  *)
(* the first thing on its connection.  Whoever has read has the report or  *)
(* half of it, whoever has verified has all of it.                         *)
ExchangeOf(r, o) ==
  /\ pc[r] <= ReadAt(r) => IF Sent(o) THEN ReportAhead(r, o) ELSE wire[Between][r] = <<>>
  /\ pc[r] > ReadAt(r) =>
       Sent(o) /\ (Len(mem[r]["report"]) = 1 \/ mem[r]["report"] = Units(ReportOf(o)))
  /\ pc[r] > VerifyAt(r) => mem[r]["report"] = Units(ReportOf(o))

Exchange == \A r \in Sides : ExchangeOf(r, Other(r))

(* VerdictsExact in terms of the steps and the reports.                    *)
Passed(r) == pc[r] > VerifyAt(r) \/ (pc[r] = VerifyAt(r) /\ result[r] = "ok")
Rejected(r, o) ==
  /\ result[r] = "failed" /\ pc[r] = VerifyAt(r)
  /\ mem[r]["report"] = Units(ReportOf(o)) /\ key[r].req.keyid = Zero

VerdictsOf(i, r) ==
  /\ Passed(r) => ConfMatches
  /\ Rejected(r, i) => ~ConfMatches
  /\ Passed(i) => Passed(r) /\ MiscCovered
  /\ Rejected(i, r) => Passed(r) /\ ~MiscCovered

Verdicts == VerdictsOf(Initiator, Responder)

AInv == Typed /\ Control /\ Exchange /\ Verdicts

-----------------------------------------------------------------------------
(* The quote.  Its second half never travels without the first in front:   *)
(* wherever a second half is, what precedes it is the first.               *)
IsFirst(u)  == u.of = QuoteOf /\ u.part = 1
IsSecond(u) == u.of = QuoteOf /\ u.part = 2

Chained(w)   == \A i \in 2 .. Len(w) : IsSecond(w[i]) => IsFirst(w[i - 1])
FarOff(w, n) == \A i \in 1 .. Len(w) : IsSecond(w[i]) => i >= 2 * n

(* The same for a buffer, which holds at most two units.                   *)
Paired(s)    == \A i \in 1 .. Len(s) : IsSecond(s[i]) => i = 2 /\ IsFirst(s[1])
NoSecond(s)  == \A i \in 1 .. Len(s) : ~IsSecond(s[i])
EndsQuote(s) == Len(s) = 2 /\ IsSecond(s[2])

(* The reads of the target from the quoting enclave that are still to      *)
(* come, of four, and the messages that enclave has sent before the quote. *)
ReadsLeft ==
  CASE pc["target"] <= 6 -> 4
    [] pc["target"] \in 7 .. 9 -> 3
    [] pc["target"] = 10 -> 2
    [] pc["target"] = 11 -> 1
    [] OTHER -> 0
SentOnQ ==
  CASE pc["quote"] <= 5 -> 0
    [] pc["quote"] \in 6 .. 9 -> 1
    [] pc["quote"] = 10 -> 2
    [] OTHER -> 3

(* What the target has yet to read, w.  A read takes at most two units, so *)
(* with n reads to come the second half of the quote is at least 2n units  *)
(* away, and never the first thing a read returns.                         *)
ToTarget(w, left, sent) ==
  Chained(w) /\ FarOff(w, left) /\ Len(w) >= 2 * (sent + left - 4)

(* The buffers of the target and of the quoting enclave.                   *)
Filled(m) ==
  /\ \A s \in {"N", "E", "quote"} : Len(m[s]) = 2 /\ Paired(m[s])
  /\ NoSecond(m["N"]) /\ NoSecond(m["E"])
Buffers(t, q, signed) ==
  (\A s \in {"N", "E", "quote"} : Paired(t[s])) /\ (signed => Filled(q))

(* What the challenger has yet to read, w, and the quote it has read, q:   *)
(* it hears of the target only after the target has verified.              *)
ToChallenger(w, q, reads, verified, ok) ==
  /\ Chained(w)
  /\ EndsQuote(q) => IsFirst(q[1])
  /\ w # << >> \/ reads => verified
  /\ ok => EndsQuote(q)

QInv ==
  mode = "remote" =>
    /\ ToTarget(wire["q"]["target"], ReadsLeft, SentOnQ)
    /\ Buffers(mem["target"], mem["quote"], pc["quote"] > 8)
    /\ ToChallenger(wire["c"]["challenger"], mem["challenger"]["quote"],
                    pc["challenger"] > 3, pc["target"] > 7, result["challenger"] = "ok")

-----------------------------------------------------------------------------
(* The programs, step by step.                                             *)

(* What each program does where: o is its step i.                          *)
IntraChallengerAt(i, o) ==
  /\ o.op = "report" <=> i = 2
  /\ o.op = "verify" <=> i = 4
  /\ o.op = "read" <=> i = 3
  /\ o.op \notin {"write", "send", "good", "sign", "check"}
  /\ o.conn = "c"
  /\ i = 2 => o.arg = "conf"
  /\ i = 3 => o.arg = "report"

IntraTargetAt(i, o) ==
  /\ o.op = "report" <=> i = 5
  /\ o.op = "verify" <=> i = 4
  /\ o.op = "read" <=> i = 3
  /\ o.op \notin {"write", "send", "good", "sign", "check"}
  /\ o.conn = "c"
  /\ i = 3 => o.arg = "report"
  /\ i = 5 => o.arg = "sender"

RemoteChallengerAt(i, o) ==
  /\ o.op = "read" <=> i \in {3, 4, 5}
  /\ o.op = "write" <=> i = 2
  /\ o.op = "check" <=> i = 6
  /\ o.op \notin {"report", "verify", "send", "good", "sign"}
  /\ o.conn = "c"
  /\ i = 2 => o.arg = "challenge"
  /\ i = 3 => o.arg = "N"
  /\ i = 4 => o.arg = "E"
  /\ i = 5 => o.arg = "quote"

RemoteTargetAt(i, o) ==
  /\ o.op = "report" <=> i = 5
  /\ o.op = "verify" <=> i = 7
  /\ o.op = "read" <=> i \in {3, 6, 9, 10, 11}
  /\ o.op = "write" <=> i = 8
  /\ o.op = "send" <=> i \in {12, 13, 14}
  /\ o.op \notin {"good", "sign", "check"}
  /\ o.conn = IF i <= 3 \/ i > 11 THEN "c" ELSE "q"
  /\ i = 3 => o.arg = "msg"
  /\ i = 5 => o.arg = "conf"
  /\ i = 6 => o.arg = "report"
  /\ i = 8 => o.arg = "Good"
  /\ i \in {9, 12} => o.arg = "N"
  /\ i \in {10, 13} => o.arg = "E"
  /\ i \in {11, 14} => o.arg = "quote"

RemoteQuoteAt(i, o) ==
  /\ o.op = "report" <=> i = 5
  /\ o.op = "verify" <=> i = 4
  /\ o.op = "read" <=> i \in {3, 6}
  /\ o.op = "send" <=> i \in {9, 10, 11}
  /\ o.op = "good" <=> i = 7
  /\ o.op = "sign" <=> i = 8
  /\ o.op \notin {"write", "check"}
  /\ o.conn = "q"
  /\ i = 3 => o.arg = "report"
  /\ i = 5 => o.arg = "sender"
  /\ i = 6 => o.arg = "msg"
  /\ i = 9 => o.arg = "N"
  /\ i = 10 => o.arg = "E"
  /\ i = 11 => o.arg = "quote"

(* The program of the challenger of a local attestation.                   *)
LEMMA IntraChallengerSteps ==
  mode = "intra" =>
    /\ Len(Program("challenger")) = 4
    /\ \A i \in 1 .. 4 : IntraChallengerAt(i, Program("challenger")[i])
<1>1. mode = "intra" => Program("challenger") = IntraChallenger
  BY DEF Program
<1>2. /\ IntraChallenger[1].op = "connect" /\ IntraChallenger[2].op = "report"
      /\ IntraChallenger[3].op = "read" /\ IntraChallenger[4].op = "verify"
  BY DEF IntraChallenger, Op
<1>3. /\ IntraChallenger[1].conn = "c" /\ IntraChallenger[2].conn = "c"
      /\ IntraChallenger[3].conn = "c" /\ IntraChallenger[4].conn = "c"
  BY DEF IntraChallenger, Op
<1>4. /\ IntraChallenger[2].arg = "conf" /\ IntraChallenger[3].arg = "report"
  BY DEF IntraChallenger, Op
<1>5. Len(IntraChallenger) = 4
  BY DEF IntraChallenger
<1> QED
  BY <1>1, <1>2, <1>3, <1>4, <1>5 DEF IntraChallengerAt

(* The program of the target of a local attestation.                       *)
LEMMA IntraTargetSteps ==
  mode = "intra" =>
    /\ Len(Program("target")) = 5
    /\ \A i \in 1 .. 5 : IntraTargetAt(i, Program("target")[i])
<1>1. mode = "intra" => Program("target") = IntraTarget
  BY DEF Program
<1>2. /\ IntraTarget[1].op = "listen" /\ IntraTarget[2].op = "accept"
      /\ IntraTarget[3].op = "read" /\ IntraTarget[4].op = "verify"
      /\ IntraTarget[5].op = "report"
  BY DEF IntraTarget, Op
<1>3. /\ IntraTarget[1].conn = "c" /\ IntraTarget[2].conn = "c"
      /\ IntraTarget[3].conn = "c" /\ IntraTarget[4].conn = "c"
      /\ IntraTarget[5].conn = "c"
  BY DEF IntraTarget, Op
<1>4. /\ IntraTarget[3].arg = "report" /\ IntraTarget[5].arg = "sender"
  BY DEF IntraTarget, Op
<1>5. Len(IntraTarget) = 5
  BY DEF IntraTarget
<1> QED
  BY <1>1, <1>2, <1>3, <1>4, <1>5 DEF IntraTargetAt

(* The program of the challenger of a remote attestation.                  *)
LEMMA RemoteChallengerSteps ==
  mode = "remote" =>
    /\ Len(Program("challenger")) = 6
    /\ \A i \in 1 .. 6 : RemoteChallengerAt(i, Program("challenger")[i])
<1>1. mode = "remote" => Program("challenger") = RemoteChallenger
  BY DEF Program
<1>2. /\ RemoteChallenger[1].op = "connect" /\ RemoteChallenger[2].op = "write"
      /\ RemoteChallenger[3].op = "read" /\ RemoteChallenger[4].op = "read"
      /\ RemoteChallenger[5].op = "read" /\ RemoteChallenger[6].op = "check"
  BY DEF RemoteChallenger, Op
<1>3. /\ RemoteChallenger[1].conn = "c" /\ RemoteChallenger[2].conn = "c"
      /\ RemoteChallenger[3].conn = "c" /\ RemoteChallenger[4].conn = "c"
      /\ RemoteChallenger[5].conn = "c" /\ RemoteChallenger[6].conn = "c"
  BY DEF RemoteChallenger, Op
<1>4. /\ RemoteChallenger[2].arg = "challenge" /\ RemoteChallenger[3].arg = "N"
      /\ RemoteChallenger[4].arg = "E" /\ RemoteChallenger[5].arg = "quote"
  BY DEF RemoteChallenger, Op
<1>5. Len(RemoteChallenger) = 6
  BY DEF RemoteChallenger
<1> QED
  BY <1>1, <1>2, <1>3, <1>4, <1>5 DEF RemoteChallengerAt

(* The program of the target of a remote attestation.                      *)
LEMMA RemoteTargetSteps ==
  mode = "remote" =>
    /\ Len(Program("target")) = 14
    /\ \A i \in 1 .. 14 : RemoteTargetAt(i, Program("target")[i])
<1>1. mode = "remote" => Program("target") = RemoteTarget
  BY DEF Program
<1>2. /\ RemoteTarget[1].op = "listen" /\ RemoteTarget[2].op = "accept"
      /\ RemoteTarget[3].op = "read" /\ RemoteTarget[4].op = "connect"
      /\ RemoteTarget[5].op = "report" /\ RemoteTarget[6].op = "read"
      /\ RemoteTarget[7].op = "verify" /\ RemoteTarget[8].op = "write"
      /\ RemoteTarget[9].op = "read" /\ RemoteTarget[10].op = "read"
      /\ RemoteTarget[11].op = "read" /\ RemoteTarget[12].op = "send"
      /\ RemoteTarget[13].op = "send" /\ RemoteTarget[14].op = "send"
  BY DEF RemoteTarget, Op
<1>3. /\ RemoteTarget[1].conn = "c" /\ RemoteTarget[2].conn = "c"
      /\ RemoteTarget[3].conn = "c" /\ RemoteTarget[4].conn = "q"
      /\ RemoteTarget[5].conn = "q" /\ RemoteTarget[6].conn = "q"
      /\ RemoteTarget[7].conn = "q" /\ RemoteTarget[8].conn = "q"
      /\ RemoteTarget[9].conn = "q" /\ RemoteTarget[10].conn = "q"
      /\ RemoteTarget[11].conn = "q" /\ RemoteTarget[12].conn = "c"
      /\ RemoteTarget[13].conn = "c" /\ RemoteTarget[14].conn = "c"
  BY DEF RemoteTarget, Op
<1>4. /\ RemoteTarget[3].arg = "msg" /\ RemoteTarget[5].arg = "conf"
      /\ RemoteTarget[6].arg = "report" /\ RemoteTarget[8].arg = "Good"
      /\ RemoteTarget[9].arg = "N" /\ RemoteTarget[10].arg = "E"
      /\ RemoteTarget[11].arg = "quote" /\ RemoteTarget[12].arg = "N"
      /\ RemoteTarget[13].arg = "E" /\ RemoteTarget[14].arg = "quote"
  BY DEF RemoteTarget, Op
<1>5. Len(RemoteTarget) = 14
  BY DEF RemoteTarget
<1> QED
  BY <1>1, <1>2, <1>3, <1>4, <1>5 DEF RemoteTargetAt

(* The program of the quote of a remote attestation.                       *)
LEMMA RemoteQuoteSteps ==
  mode = "remote" =>
    /\ Len(Program("quote")) = 11
    /\ \A i \in 1 .. 11 : RemoteQuoteAt(i, Program("quote")[i])
<1>1. mode = "remote" => Program("quote") = RemoteQuote
  BY DEF Program
<1>2. /\ RemoteQuote[1].op = "listen" /\ RemoteQuote[2].op = "accept"
      /\ RemoteQuote[3].op = "read" /\ RemoteQuote[4].op = "verify"
      /\ RemoteQuote[5].op = "report" /\ RemoteQuote[6].op = "read"
      /\ RemoteQuote[7].op = "good" /\ RemoteQuote[8].op = "sign"
      /\ RemoteQuote[9].op = "send" /\ RemoteQuote[10].op = "send"
      /\ RemoteQuote[11].op = "send"
  BY DEF RemoteQuote, Op
<1>3. /\ RemoteQuote[1].conn = "q" /\ RemoteQuote[2].conn = "q"
      /\ RemoteQuote[3].conn = "q" /\ RemoteQuote[4].conn = "q"
      /\ RemoteQuote[5].conn = "q" /\ RemoteQuote[6].conn = "q"
      /\ RemoteQuote[7].conn = "q" /\ RemoteQuote[8].conn = "q"
      /\ RemoteQuote[9].conn = "q" /\ RemoteQuote[10].conn = "q"
      /\ RemoteQuote[11].conn = "q"
  BY DEF RemoteQuote, Op
<1>4. /\ RemoteQuote[3].arg = "report" /\ RemoteQuote[5].arg = "sender"
      /\ RemoteQuote[6].arg = "msg" /\ RemoteQuote[9].arg = "N"
      /\ RemoteQuote[10].arg = "E" /\ RemoteQuote[11].arg = "quote"
  BY DEF RemoteQuote, Op
<1>5. Len(RemoteQuote) = 11
  BY DEF RemoteQuote
<1> QED
  BY <1>1, <1>2, <1>3, <1>4, <1>5 DEF RemoteQuoteAt
-----------------------------------------------------------------------------
(* Where each operation of the exchange is in the program of either side.  *)

(* The two sides of a local attestation and their steps.                   *)
LEMMA IntraSides ==
  mode = "intra" =>
    /\ Initiator = "challenger" /\ Responder = "target" /\ Between = "c"
    /\ Sides = {"challenger", "target"}
    /\ ReportAt("challenger") = 2 /\ ReadAt("challenger") = 3 /\ VerifyAt("challenger") = 4
    /\ ReportAt("target") = 5 /\ ReadAt("target") = 3 /\ VerifyAt("target") = 4
BY DEF Initiator, Responder, Between, Sides, ReportAt, ReadAt, VerifyAt

(* And of a remote one.                                                    *)
LEMMA RemoteSides ==
  mode = "remote" =>
    /\ Initiator = "target" /\ Responder = "quote" /\ Between = "q"
    /\ Sides = {"target", "quote"}
    /\ ReportAt("target") = 5 /\ ReadAt("target") = 6 /\ VerifyAt("target") = 7
    /\ ReportAt("quote") = 5 /\ ReadAt("quote") = 3 /\ VerifyAt("quote") = 4
BY DEF Initiator, Responder, Between, Sides, ReportAt, ReadAt, VerifyAt

(* A process that runs is at a step of its program.                        *)
LEMMA InProgram ==
  ASSUME Typed, Control, NEW r \in Role, Running(r)
  PROVE  /\ pc[r] \in Nat /\ pc[r] \in 1 .. Len(Program(r)) /\ Len(Program(r)) \in Nat
         /\ mode = "intra" => r \in {"challenger", "target"}
<1>1. r \in {"challenger", "target", "quote"} /\ mode \in {"intra", "remote"} /\ pc[r] \in Nat
  BY DEF Role, Typed
<1>2. mode = "intra" => r # "quote"
  <2>1. mode = "intra" => Program("quote") = << >>
    BY DEF Program
  <2>2. mode = "intra" /\ r = "quote" => pc[r] \notin 1 .. Len(Program(r))
    BY <2>1
  <2> QED
    BY <2>2 DEF Control, Running
<1>3. pc[r] \in 1 .. Len(Program(r))
  BY <1>2 DEF Control
<1>4. Len(Program(r)) \in Nat
  BY <1>1, <1>2, IntraChallengerSteps, IntraTargetSteps, RemoteChallengerSteps,
     RemoteTargetSteps, RemoteQuoteSteps
<1> QED
  BY <1>1, <1>2, <1>3, <1>4

(* The two sides are processes of their own and each other's peers.        *)
LEMMA Pairing ==
  ASSUME Typed, NEW r \in Sides
  PROVE  /\ r \in Role /\ Other(r) \in Sides /\ Other(r) # r /\ Between \in Conn
         /\ Other(Other(r)) = r /\ Peer(r, Between) = Other(r)
         /\ Initiator # Responder /\ Initiator \in Sides /\ Responder \in Sides
         /\ Other(Initiator) = Responder /\ Other(Responder) = Initiator
<1>1. mode \in {"intra", "remote"}
  BY DEF Typed
<1>2. CASE mode = "intra"
  BY <1>2, IntraSides DEF Other, Conn, Role, Peer
<1>3. CASE mode = "remote"
  BY <1>3, RemoteSides DEF Other, Conn, Role, Peer
<1> QED
  BY <1>1, <1>2, <1>3

(* The order of the steps: the initiator reports before it reads, the      *)
(* responder verifies before it reports.                                   *)
LEMMA Order ==
  ASSUME Typed, NEW r \in Sides
  PROVE  /\ ReportAt(r) \in Nat /\ ReadAt(r) \in Nat /\ VerifyAt(r) = ReadAt(r) + 1
         /\ r = Initiator => ReportAt(r) < ReadAt(r)
         /\ r = Responder => VerifyAt(r) < ReportAt(r)
         /\ Len(Program(r)) \in Nat
         /\ VerifyAt(r) <= Len(Program(r)) /\ ReportAt(r) <= Len(Program(r))
<1>1. mode \in {"intra", "remote"}
  BY DEF Typed
<1>2. CASE mode = "intra"
  <2>1. Len(Program("challenger")) = 4 /\ Len(Program("target")) = 5
    BY <1>2, IntraChallengerSteps, IntraTargetSteps
  <2>2. CASE r = "challenger"
    BY <1>2, <2>1, <2>2, IntraSides
  <2>3. CASE r = "target"
    <3>1. r # Initiator
      BY <1>2, <2>3, IntraSides
    <3>2. ReportAt(r) = 5 /\ ReadAt(r) = 3 /\ VerifyAt(r) = 4 /\ Len(Program(r)) = 5
      BY <1>2, <2>1, <2>3, IntraSides
    <3> QED
      BY <3>1, <3>2
  <2> QED
    BY <1>2, <2>2, <2>3, IntraSides
<1>3. CASE mode = "remote"
  <2>1. Len(Program("target")) = 14 /\ Len(Program("quote")) = 11
    BY <1>3, RemoteTargetSteps, RemoteQuoteSteps
  <2>2. CASE r = "target"
    BY <1>3, <2>1, <2>2, RemoteSides
  <2>3. CASE r = "quote"
    <3>1. r # Initiator
      BY <1>3, <2>3, RemoteSides
    <3>2. ReportAt(r) = 5 /\ ReadAt(r) = 3 /\ VerifyAt(r) = 4 /\ Len(Program(r)) = 11
      BY <1>3, <2>1, <2>3, RemoteSides
    <3> QED
      BY <3>1, <3>2
  <2> QED
    BY <1>3, <2>2, <2>3, RemoteSides
<1> QED
  BY <1>1, <1>2, <1>3

(* Which step that is.                                                     *)
LEMMA StepIs ==
  ASSUME Typed, Control, NEW r \in Role, Running(r)
  PROVE  /\ pc[r] \in 1 .. 14
         /\ \/ mode = "intra" /\ r = "challenger" /\ IntraChallengerAt(pc[r], Program(r)[pc[r]])
            \/ mode = "intra" /\ r = "target" /\ IntraTargetAt(pc[r], Program(r)[pc[r]])
            \/ mode = "remote" /\ r = "challenger" /\ RemoteChallengerAt(pc[r], Program(r)[pc[r]])
            \/ mode = "remote" /\ r = "target" /\ RemoteTargetAt(pc[r], Program(r)[pc[r]])
            \/ mode = "remote" /\ r = "quote" /\ RemoteQuoteAt(pc[r], Program(r)[pc[r]])
<1>1. /\ mode \in {"intra", "remote"}
      /\ pc[r] \in 1 .. Len(Program(r)) /\ (mode = "intra" => r \in {"challenger", "target"})
  BY InProgram DEF Typed
<1>2. ASSUME mode = "intra", r = "challenger"
      PROVE  pc[r] \in 1 .. 14 /\ IntraChallengerAt(pc[r], Program(r)[pc[r]])
  <2>1. pc[r] \in 1 .. 4
    BY <1>1, <1>2, IntraChallengerSteps
  <2>2. IntraChallengerAt(pc[r], Program("challenger")[pc[r]])
    BY <1>2, <2>1, IntraChallengerSteps
  <2> QED
    BY <1>2, <2>1, <2>2
<1>3. ASSUME mode = "intra", r = "target"
      PROVE  pc[r] \in 1 .. 14 /\ IntraTargetAt(pc[r], Program(r)[pc[r]])
  <2>1. pc[r] \in 1 .. 5
    BY <1>1, <1>3, IntraTargetSteps
  <2>2. IntraTargetAt(pc[r], Program("target")[pc[r]])
    BY <1>3, <2>1, IntraTargetSteps
  <2> QED
    BY <1>3, <2>1, <2>2
<1>4. ASSUME mode = "remote", r = "challenger"
      PROVE  pc[r] \in 1 .. 14 /\ RemoteChallengerAt(pc[r], Program(r)[pc[r]])
  <2>1. pc[r] \in 1 .. 6
    BY <1>1, <1>4, RemoteChallengerSteps
  <2>2. RemoteChallengerAt(pc[r], Program("challenger")[pc[r]])
    BY <1>4, <2>1, RemoteChallengerSteps
  <2> QED
    BY <1>4, <2>1, <2>2
<1>5. ASSUME mode = "remote", r = "target"
      PROVE  pc[r] \in 1 .. 14 /\ RemoteTargetAt(pc[r], Program(r)[pc[r]])
  <2>1. pc[r] \in 1 .. 14
    BY <1>1, <1>5, RemoteTargetSteps
  <2>2. RemoteTargetAt(pc[r], Program("target")[pc[r]])
    BY <1>5, <2>1, RemoteTargetSteps
  <2> QED
    BY <1>5, <2>1, <2>2
<1>6. ASSUME mode = "remote", r = "quote"
      PROVE  pc[r] \in 1 .. 14 /\ RemoteQuoteAt(pc[r], Program(r)[pc[r]])
  <2>1. pc[r] \in 1 .. 11
    BY <1>1, <1>6, RemoteQuoteSteps
  <2>2. RemoteQuoteAt(pc[r], Program("quote")[pc[r]])
    BY <1>6, <2>1, RemoteQuoteSteps
  <2> QED
    BY <1>6, <2>1, <2>2
<1> QED
  BY <1>1, <1>2, <1>3, <1>4, <1>5, <1>6 DEF Role

(* r is at none of the three steps of the exchange.                        *)
Elsewhere(r) == r \in Sides => pc[r] \notin {ReportAt(r), ReadAt(r), VerifyAt(r)}

(* Only the sides make reports, for each other, over their connection.     *)
LEMMA ReportStep ==
  ASSUME Typed, Control, NEW r \in Role, AtOp(r, "report")
  PROVE  /\ r \in Sides /\ pc[r] = ReportAt(r) /\ ConnOf(r) = Between
         /\ Arg(r) = IF r = Initiator THEN "conf" ELSE "sender"
<1>1. Running(r) /\ pc[r] \in Int
  BY StepIs DEF AtOp
<1>2. CASE mode = "intra" /\ r = "challenger" /\ IntraChallengerAt(pc[r], Program(r)[pc[r]])
  BY <1>1, <1>2, IntraSides DEF IntraChallengerAt, AtOp, ConnOf, Arg
<1>3. CASE mode = "intra" /\ r = "target" /\ IntraTargetAt(pc[r], Program(r)[pc[r]])
  BY <1>1, <1>3, IntraSides DEF IntraTargetAt, AtOp, ConnOf, Arg
<1>4. CASE mode = "remote" /\ r = "challenger" /\ RemoteChallengerAt(pc[r], Program(r)[pc[r]])
  BY <1>1, <1>4, RemoteSides DEF RemoteChallengerAt, AtOp, ConnOf, Arg
<1>5. CASE mode = "remote" /\ r = "target" /\ RemoteTargetAt(pc[r], Program(r)[pc[r]])
  BY <1>1, <1>5, RemoteSides DEF RemoteTargetAt, AtOp, ConnOf, Arg
<1>6. CASE mode = "remote" /\ r = "quote" /\ RemoteQuoteAt(pc[r], Program(r)[pc[r]])
  BY <1>1, <1>6, RemoteSides DEF RemoteQuoteAt, AtOp, ConnOf, Arg
<1> QED
  BY <1>1, <1>2, <1>3, <1>4, <1>5, <1>6, StepIs

(* Only the sides verify, each after it has read.                          *)
LEMMA VerifyStep ==
  ASSUME Typed, Control, NEW r \in Role, AtOp(r, "verify")
  PROVE  r \in Sides /\ pc[r] = VerifyAt(r)
<1>1. Running(r) /\ pc[r] \in Int
  BY StepIs DEF AtOp
<1>2. CASE mode = "intra" /\ r = "challenger" /\ IntraChallengerAt(pc[r], Program(r)[pc[r]])
  BY <1>1, <1>2, IntraSides DEF IntraChallengerAt, AtOp
<1>3. CASE mode = "intra" /\ r = "target" /\ IntraTargetAt(pc[r], Program(r)[pc[r]])
  BY <1>1, <1>3, IntraSides DEF IntraTargetAt, AtOp
<1>4. CASE mode = "remote" /\ r = "challenger" /\ RemoteChallengerAt(pc[r], Program(r)[pc[r]])
  BY <1>1, <1>4, RemoteSides DEF RemoteChallengerAt, AtOp
<1>5. CASE mode = "remote" /\ r = "target" /\ RemoteTargetAt(pc[r], Program(r)[pc[r]])
  BY <1>1, <1>5, RemoteSides DEF RemoteTargetAt, AtOp
<1>6. CASE mode = "remote" /\ r = "quote" /\ RemoteQuoteAt(pc[r], Program(r)[pc[r]])
  BY <1>1, <1>6, RemoteSides DEF RemoteQuoteAt, AtOp
<1> QED
  BY <1>1, <1>2, <1>3, <1>4, <1>5, <1>6, StepIs

(* A read is the one of the report, or it is elsewhere and into another    *)
(* buffer.  From the other side nothing is read before the report.         *)
LEMMA ReadStep ==
  ASSUME Typed, Control, NEW r \in Role, AtOp(r, "read")
  PROVE  /\ ConnOf(r) \in Conn /\ Arg(r) \in Slot
         /\ \/ r \in Sides /\ pc[r] = ReadAt(r) /\ ConnOf(r) = Between /\ Arg(r) = "report"
            \/ /\ Elsewhere(r) /\ Arg(r) # "report"
               /\ ConnOf(r) = Between => r \in Sides /\ pc[r] > ReadAt(r)
<1>1. Running(r) /\ pc[r] \in Int
  BY StepIs DEF AtOp
<1>2. CASE mode = "intra" /\ r = "challenger" /\ IntraChallengerAt(pc[r], Program(r)[pc[r]])
  BY <1>1, <1>2, IntraSides DEF IntraChallengerAt, AtOp, ConnOf, Arg, Conn, Slot, Elsewhere
<1>3. CASE mode = "intra" /\ r = "target" /\ IntraTargetAt(pc[r], Program(r)[pc[r]])
  BY <1>1, <1>3, IntraSides DEF IntraTargetAt, AtOp, ConnOf, Arg, Conn, Slot, Elsewhere
<1>4. CASE mode = "remote" /\ r = "challenger" /\ RemoteChallengerAt(pc[r], Program(r)[pc[r]])
  BY <1>1, <1>4, RemoteSides DEF RemoteChallengerAt, AtOp, ConnOf, Arg, Conn, Slot, Elsewhere
<1>5. CASE mode = "remote" /\ r = "target" /\ RemoteTargetAt(pc[r], Program(r)[pc[r]])
  BY <1>1, <1>5, RemoteSides DEF RemoteTargetAt, AtOp, ConnOf, Arg, Conn, Slot, Elsewhere
<1>6. CASE mode = "remote" /\ r = "quote" /\ RemoteQuoteAt(pc[r], Program(r)[pc[r]])
  BY <1>1, <1>6, RemoteSides DEF RemoteQuoteAt, AtOp, ConnOf, Arg, Conn, Slot, Elsewhere
<1> QED
  BY <1>1, <1>2, <1>3, <1>4, <1>5, <1>6, StepIs

(* What else is sent to the other side is sent after the report.           *)
LEMMA SendStep ==
  ASSUME Typed, Control, NEW r \in Role, AtOp(r, "write") \/ AtOp(r, "send")
  PROVE  /\ Elsewhere(r) /\ ConnOf(r) \in Conn
         /\ ConnOf(r) = Between => r \in Sides /\ pc[r] > ReportAt(r)
         /\ AtOp(r, "write") => Arg(r) \in {"challenge", "Good"}
         /\ AtOp(r, "send") => Arg(r) \in {"N", "E", "quote"}
<1>1. Running(r) /\ pc[r] \in Int
  BY StepIs DEF AtOp
<1>2. CASE mode = "intra" /\ r = "challenger" /\ IntraChallengerAt(pc[r], Program(r)[pc[r]])
  BY <1>1, <1>2, IntraSides DEF IntraChallengerAt, AtOp, ConnOf, Arg, Conn, Elsewhere
<1>3. CASE mode = "intra" /\ r = "target" /\ IntraTargetAt(pc[r], Program(r)[pc[r]])
  BY <1>1, <1>3, IntraSides DEF IntraTargetAt, AtOp, ConnOf, Arg, Conn, Elsewhere
<1>4. CASE mode = "remote" /\ r = "challenger" /\ RemoteChallengerAt(pc[r], Program(r)[pc[r]])
  BY <1>1, <1>4, RemoteSides DEF RemoteChallengerAt, AtOp, ConnOf, Arg, Conn, Elsewhere
<1>5. CASE mode = "remote" /\ r = "target" /\ RemoteTargetAt(pc[r], Program(r)[pc[r]])
  BY <1>1, <1>5, RemoteSides DEF RemoteTargetAt, AtOp, ConnOf, Arg, Conn, Elsewhere
<1>6. CASE mode = "remote" /\ r = "quote" /\ RemoteQuoteAt(pc[r], Program(r)[pc[r]])
  BY <1>1, <1>6, RemoteSides DEF RemoteQuoteAt, AtOp, ConnOf, Arg, Conn, Elsewhere
<1> QED
  BY <1>1, <1>2, <1>3, <1>4, <1>5, <1>6, StepIs

(* The remaining operations are not part of the exchange; a quote is made  *)
(* by the responder of a remote attestation once it has verified.          *)
LEMMA OtherStep ==
  ASSUME Typed, Control, NEW r \in Role, Running(r),
         Program(r)[pc[r]].op \notin {"report", "read", "verify"}
  PROVE  /\ Elsewhere(r)
         /\ AtOp(r, "sign") => /\ mode = "remote" /\ r = "quote" /\ r = Responder
                               /\ pc[r] = 8 /\ pc[r] > VerifyAt(r)
<1>1. Running(r) /\ pc[r] \in Int
  BY StepIs DEF AtOp
<1>2. CASE mode = "intra" /\ r = "challenger" /\ IntraChallengerAt(pc[r], Program(r)[pc[r]])
  BY <1>1, <1>2, IntraSides DEF IntraChallengerAt, AtOp, Elsewhere
<1>3. CASE mode = "intra" /\ r = "target" /\ IntraTargetAt(pc[r], Program(r)[pc[r]])
  BY <1>1, <1>3, IntraSides DEF IntraTargetAt, AtOp, Elsewhere
<1>4. CASE mode = "remote" /\ r = "challenger" /\ RemoteChallengerAt(pc[r], Program(r)[pc[r]])
  BY <1>1, <1>4, RemoteSides DEF RemoteChallengerAt, AtOp, Elsewhere
<1>5. CASE mode = "remote" /\ r = "target" /\ RemoteTargetAt(pc[r], Program(r)[pc[r]])
  BY <1>1, <1>5, RemoteSides DEF RemoteTargetAt, AtOp, Elsewhere
<1>6. CASE mode = "remote" /\ r = "quote" /\ RemoteQuoteAt(pc[r], Program(r)[pc[r]])
  BY <1>1, <1>6, RemoteSides DEF RemoteQuoteAt, AtOp, Elsewhere
<1> QED
  BY <1>1, <1>2, <1>3, <1>4, <1>5, <1>6, StepIs

-----------------------------------------------------------------------------
(* Steps of a process.                                                     *)

(* The enclaves, the .conf file and the kind of attestation are given.     *)
Given == mode' = mode /\ conf' = conf /\ secs' = secs

(* So is everything that depends on them only.                             *)
LEMMA GivenStays ==
  ASSUME Given
  PROVE  /\ Initiator' = Initiator /\ Responder' = Responder
         /\ Sides' = Sides /\ Between' = Between
         /\ \A r : Other(r)' = Other(r) /\ Program(r)' = Program(r)
         /\ \A r : ReportAt(r)' = ReportAt(r) /\ ReadAt(r)' = ReadAt(r) /\ VerifyAt(r)' = VerifyAt(r)
         /\ ConfMatches' <=> ConfMatches
         /\ MiscCovered' <=> MiscCovered
<1>1. Initiator' = Initiator /\ Responder' = Responder
  BY DEF Given, Initiator, Responder
<1>2. Sides' = Sides /\ Between' = Between /\ \A r : Other(r)' = Other(r)
  BY <1>1 DEF Given, Sides, Between, Other
<1>3. \A r : Program(r)' = Program(r)
  BY DEF Given, Program
<1>4. \A r : ReportAt(r)' = ReportAt(r) /\ ReadAt(r)' = ReadAt(r) /\ VerifyAt(r)' = VerifyAt(r)
  BY DEF Given, ReportAt, ReadAt, VerifyAt
<1>5. (ConfMatches' <=> ConfMatches) /\ (MiscCovered' <=> MiscCovered)
  BY <1>1 DEF Given, ConfMatches, MiscCovered
<1> QED
  BY <1>1, <1>2, <1>3, <1>4, <1>5

(* So are the reports, and with them the messages.                         *)
LEMMA MessagesStay ==
  ASSUME Given
  PROVE  (\A r : ReportOf(r)' = ReportOf(r)) /\ QuoteOf' = QuoteOf /\ Unit' = Unit
<1>1. Initiator' = Initiator /\ Responder' = Responder
  BY GivenStays
<1>2. \A r : TargetOf(r)' = TargetOf(r)
  BY <1>1 DEF Given, TargetOf
<1>3. \A r : MadeBy(r)' = MadeBy(r)
  BY <1>2 DEF Given, MadeBy
<1>4. (\A r : ReportOf(r)' = ReportOf(r)) /\ QuoteOf' = QuoteOf
  BY <1>1, <1>3 DEF ReportOf, QuoteOf
<1>5. Msg' = Msg
  BY <1>1, <1>4 DEF Msg
<1> QED
  BY <1>4, <1>5 DEF Unit

(* A process moves on, to the next step or to its end, or it gives up.     *)
OthersWait(r) == \A s \in Role : s # r => pc'[s] = pc[s] /\ result'[s] = result[s]
Forward(r) ==
  \/ pc'[r] = pc[r] + 1 /\ pc[r] < Len(Program(r)) /\ result'[r] = "running"
  \/ pc'[r] = pc[r] /\ pc[r] = Len(Program(r)) /\ result'[r] = "ok"
Stopped(r) == pc'[r] = pc[r] /\ result'[r] \in {"failed", "killed"}

PcTyped ==
  pc \in [Role -> Nat] /\ result \in [Role -> {"running", "ok", "failed", "killed"}]
Moves(r) == PcTyped' /\ OthersWait(r) /\ (Forward(r) \/ Stopped(r))

(* Proceed moves forward.                                                  *)
LEMMA ProceedMoves ==
  ASSUME Typed, Control, NEW r \in Role, Running(r), Proceed(r)
  PROVE  Moves(r) /\ Forward(r)
<1>1. pc[r] \in 1 .. Len(Program(r)) /\ Len(Program(r)) \in Nat
  BY InProgram
<1>2. pc \in [Role -> Nat] /\ result \in [Role -> {"running", "ok", "failed", "killed"}]
  BY DEF Typed
<1>3. CASE pc[r] = Len(Program(r))
  BY <1>2, <1>3 DEF Proceed, Moves, PcTyped, OthersWait, Forward
<1>4. CASE pc[r] # Len(Program(r))
  BY <1>1, <1>2, <1>4 DEF Proceed, Moves, PcTyped, OthersWait, Forward, Running
<1> QED
  BY <1>3, <1>4

(* End gives up.                                                           *)
LEMMA EndMoves ==
  ASSUME Typed, NEW r \in Role, NEW how \in {"failed", "killed"}, End(r, how)
  PROVE  Moves(r) /\ Stopped(r) /\ result'[r] = how
BY DEF Typed, End, Moves, PcTyped, OthersWait, Stopped

(* Either way the process stays in its program.                            *)
LEMMA MovesControl ==
  ASSUME Typed, Control, Given, NEW r \in Role, Running(r), Moves(r)
  PROVE  Control'
<1> SUFFICES ASSUME NEW s \in Role
             PROVE  \/ mode = "intra" /\ s = "quote" /\ result'[s] = "ok"
                    \/ /\ pc'[s] \in 1 .. Len(Program(s))
                       /\ result'[s] = "ok" => pc'[s] = Len(Program(s))
  BY GivenStays DEF Control, Given
<1>1. CASE s # r
  BY <1>1 DEF Control, Moves, OthersWait
<1>2. CASE s = r
  <2>1. pc[r] \in 1 .. Len(Program(r)) /\ Len(Program(r)) \in Nat
    BY InProgram
  <2> QED
    BY <1>2, <2>1 DEF Moves, Forward, Stopped
<1> QED
  BY <1>1, <1>2

(* Where a step of r leaves s, as far as the exchange is concerned.        *)
SamePlace(s) ==
  /\ Sent(s)' <=> Sent(s)
  /\ Passed(s)' <=> Passed(s)
  /\ pc'[s] <= ReadAt(s) <=> pc[s] <= ReadAt(s)
  /\ pc'[s] > ReadAt(s) <=> pc[s] > ReadAt(s)
  /\ pc'[s] > VerifyAt(s) <=> pc[s] > VerifyAt(s)
  /\ pc'[s] = VerifyAt(s) /\ result'[s] = "failed" => pc[s] = VerifyAt(s) /\ result[s] = "failed"

(* It leaves the other processes where they are, and itself if its step is *)
(* none of the exchange.                                                   *)
LEMMA PlaceKept ==
  ASSUME Typed, Control, Given, NEW r \in Role, Running(r), Moves(r), NEW s \in Sides,
         s # r \/ Elsewhere(r)
  PROVE  SamePlace(s)
<1>1. s \in Role /\ ReportAt(s) \in Nat /\ ReadAt(s) \in Nat /\ VerifyAt(s) = ReadAt(s) + 1
      /\ Len(Program(s)) \in Nat /\ VerifyAt(s) <= Len(Program(s)) /\ ReportAt(s) <= Len(Program(s))
  BY Pairing, Order
<1>2. ReportAt(s)' = ReportAt(s) /\ VerifyAt(s)' = VerifyAt(s)
  BY GivenStays
<1>3. CASE s # r
  BY <1>1, <1>2, <1>3 DEF SamePlace, Sent, Passed, Moves, OthersWait
<1>4. CASE s = r
  <2>1. /\ pc[s] \in Nat /\ pc[s] <= Len(Program(s)) /\ result[s] = "running"
        /\ pc[s] # ReportAt(s) /\ pc[s] # ReadAt(s) /\ pc[s] # VerifyAt(s)
    BY <1>4, InProgram DEF Elsewhere, Running
  <2>2. CASE Forward(r)
    <3>1. CASE pc'[s] = pc[s] + 1 /\ result'[s] = "running"
      BY <1>1, <1>2, <1>4, <2>1, <3>1 DEF SamePlace, Sent, Passed
    <3>2. CASE pc'[s] = pc[s] /\ pc[s] = Len(Program(s)) /\ result'[s] = "ok"
      BY <1>1, <1>2, <1>4, <2>1, <3>2 DEF SamePlace, Sent, Passed
    <3> QED
      BY <1>4, <2>2, <3>1, <3>2 DEF Forward
  <2>3. CASE Stopped(r)
    BY <1>1, <1>2, <1>4, <2>1, <2>3 DEF SamePlace, Sent, Passed, Stopped
  <2> QED
    BY <2>2, <2>3 DEF Moves
<1> QED
  BY <1>3, <1>4

(* The invariant for the next state, side by side.                         *)
LEMMA BySides ==
  ASSUME Typed, Given,
         \A s, o \in Sides : o = Other(s) => ExchangeOf(s, o)',
         \A i, j \in Sides : i = Initiator /\ j = Responder => VerdictsOf(i, j)'
  PROVE  Exchange' /\ Verdicts'
<1>1. Sides' = Sides /\ \A s : Other(s)' = Other(s)
  BY GivenStays
<1>2. Exchange'
  <2> SUFFICES ASSUME NEW s \in Sides, NEW o, o = Other(s)' PROVE ExchangeOf(s, o)'
    BY <1>1 DEF Exchange
  <2> QED
    BY <1>1, Pairing
<1>3. Verdicts'
  <2> SUFFICES ASSUME NEW i, i = Initiator', NEW j, j = Responder' PROVE VerdictsOf(i, j)'
    BY DEF Verdicts
  <2> QED
    BY GivenStays DEF Sides
<1> QED
  BY <1>2, <1>3

(***************************************************************************)
(* A step that is none of the exchange, of a process that touches no       *)
(* report and at most adds to what is behind one, keeps the exchange and   *)
(* the verdicts.                                                           *)
(***************************************************************************)
LEMMA QuietStep ==
  ASSUME AInv, Given, key' = key, NEW r \in Role, Running(r), Moves(r), Elsewhere(r),
         \A s \in Sides : mem'[s]["report"] = mem[s]["report"],
         \A s \in Sides : pc[s] <= ReadAt(s) =>
           \/ wire'[Between][s] = wire[Between][s]
           \/ /\ Sent(Other(s))
              /\ \E u \in Seq(Unit) : wire'[Between][s] = wire[Between][s] \o u
  PROVE  Exchange' /\ Verdicts'
<1>1. \A s \in Sides : SamePlace(s)
  BY PlaceKept DEF AInv
<1>2. ASSUME NEW s \in Sides, NEW o \in Sides, o = Other(s) PROVE ExchangeOf(s, o)'
  <2>1. SamePlace(s) /\ SamePlace(o) /\ ExchangeOf(s, o) /\ s \in Role
    BY <1>1, <1>2, Pairing DEF AInv, Exchange
  <2>2. ReadAt(s)' = ReadAt(s) /\ VerifyAt(s)' = VerifyAt(s) /\ Between' = Between
        /\ ReportOf(o)' = ReportOf(o)
    BY GivenStays, MessagesStay
  <2>3. CASE pc[s] <= ReadAt(s)
    <3>1. CASE wire'[Between][s] = wire[Between][s]
      BY <2>1, <2>2, <2>3, <3>1 DEF ExchangeOf, ReportAhead, SamePlace, Units
    <3>2. ASSUME Sent(o), NEW u \in Seq(Unit), wire'[Between][s] = wire[Between][s] \o u
          PROVE  ExchangeOf(s, o)'
      <4>1. ReportAhead(s, o) /\ wire[Between][s] \in Seq(Unit)
        BY <2>1, <2>3, <3>2, Pairing DEF ExchangeOf, AInv, Typed
      <4>2. ReportAhead(s, o)'
        BY <2>2, <3>2, <4>1 DEF ReportAhead, Units
      <4> QED
        BY <2>1, <2>2, <2>3, <3>2, <4>2 DEF ExchangeOf, SamePlace
    <3> QED
      BY <1>2, <2>3, <3>1, <3>2
  <2>4. CASE ~(pc[s] <= ReadAt(s))
    BY <2>1, <2>2, <2>4 DEF ExchangeOf, SamePlace, Units
  <2> QED
    BY <2>3, <2>4
<1>3. ASSUME NEW i \in Sides, NEW j \in Sides, i = Initiator, j = Responder
      PROVE  VerdictsOf(i, j)'
  <2>1. SamePlace(i) /\ SamePlace(j) /\ VerdictsOf(i, j)
    BY <1>1, <1>3 DEF AInv, Verdicts
  <2>2. /\ ConfMatches' <=> ConfMatches
        /\ MiscCovered' <=> MiscCovered
        /\ Units(ReportOf(i))' = Units(ReportOf(i)) /\ Units(ReportOf(j))' = Units(ReportOf(j))
        /\ VerifyAt(i)' = VerifyAt(i) /\ VerifyAt(j)' = VerifyAt(j)
    BY GivenStays, MessagesStay DEF Units
  <2>3. (Rejected(i, j)' => Rejected(i, j)) /\ (Rejected(j, i)' => Rejected(j, i))
    BY <2>1, <2>2 DEF Rejected, SamePlace
  <2> QED
    BY <2>1, <2>2, <2>3 DEF VerdictsOf, SamePlace
<1> QED
  BY <1>2, <1>3, BySides DEF AInv

-----------------------------------------------------------------------------
(* Messages and connections.                                               *)

(* A message is a sequence of two units, of which it can be told.          *)
LEMMA UnitsAre ==
  ASSUME NEW m
  PROVE  /\ Len(Units(m)) = 2 /\ Units(m)[1].of = m /\ Units(m)[2].of = m
         /\ Units(m)[1].part = 1 /\ Units(m)[2].part = 2
         /\ m \in Msg => Units(m) \in Seq(Unit)
<1>1. Units(m) = <<[of |-> m, part |-> 1], [of |-> m, part |-> 2]>>
  BY DEF Units
<1>2. ASSUME m \in Msg PROVE [of |-> m, part |-> 1] \in Unit /\ [of |-> m, part |-> 2] \in Unit
  BY <1>2 DEF Unit
<1> QED
  BY <1>1, <1>2

(* Every message the programs send is one of Msg.                          *)
LEMMA MessagesAre ==
  /\ \A k \in {"challenge", "Good", "N", "E", "zeros"} : Message(k, None) \in Msg
  /\ ReportOf(Initiator) \in Msg /\ ReportOf(Responder) \in Msg /\ QuoteOf \in Msg
  /\ Zeros \in Unit
<1>1. \A k \in {"challenge", "Good", "N", "E", "zeros"} : Message(k, None) \in Msg
  BY DEF Msg
<1>2. Zeros \in Unit
  BY <1>1 DEF Zeros, Unit
<1> QED
  BY <1>1, <1>2 DEF Msg

(* The types, kept.                                                        *)
LEMMA TypedKept ==
  ASSUME Typed, Given, PcTyped', wire' \in [Conn -> [Role -> Seq(Unit)]],
         mem' \in [Role -> [Slot -> Seq(Unit)]], key' = [e \in Role |-> key'[e]]
  PROVE  Typed'
BY MessagesStay DEF Typed, Given, PcTyped

(* A step that moves a process on and does nothing else.                   *)
LEMMA MoveAInv ==
  ASSUME AInv, Given, NEW r \in Role, Running(r), Moves(r), Elsewhere(r),
         wire' = wire, mem' = mem, key' = key
  PROVE  AInv'
<1>1. Typed'
  BY TypedKept DEF AInv, Typed, Moves
<1>2. Control'
  BY MovesControl DEF AInv
<1>3. Exchange' /\ Verdicts'
  BY QuietStep
<1> QED
  BY <1>1, <1>2, <1>3 DEF AInv

(* sgx_write_sock adds to what the peer has to read, or it does not.       *)
Reaches(r, c, p, units) ==
  /\ Moves(r) /\ p \in Role /\ wire' \in [Conn -> [Role -> Seq(Unit)]]
  /\ \A d \in Conn, s \in Role : d # c \/ s # p => wire'[d][s] = wire[d][s]
  /\ wire'[c][p] = wire[c][p] \o units \/ wire'[c][p] = wire[c][p]

(* If it does not, the process ends, except after "Good".                  *)
Written(r, c, p, units) ==
  /\ Reaches(r, c, p, units)
  /\ \/ Forward(r) /\ wire'[c][p] = wire[c][p] \o units
     \/ Stopped(r) /\ wire'[c][p] = wire[c][p]

(* It does so for every message.                                           *)
LEMMA WriteMoves ==
  ASSUME Typed, Control, NEW r \in Role, Running(r), NEW units \in Seq(Unit),
         NEW c \in Conn, c = ConnOf(r), NEW p, p = Peer(r, c), sgx_write_sock(r, units)
  PROVE  Reaches(r, c, p, units) /\ (Arg(r) # "Good" => Written(r, c, p, units))
<1>1. p \in Role /\ wire \in [Conn -> [Role -> Seq(Unit)]]
  BY DEF Peer, Role, Typed
<1>2. ASSUME wire' = [wire EXCEPT ![c][p] = @ \o units], Proceed(r)
      PROVE  /\ Moves(r) /\ Forward(r) /\ wire' \in [Conn -> [Role -> Seq(Unit)]]
             /\ wire'[c][p] = wire[c][p] \o units
             /\ \A d \in Conn, s \in Role : d # c \/ s # p => wire'[d][s] = wire[d][s]
  <2>1. wire[c][p] \o units \in Seq(Unit)
    BY <1>1
  <2>2. wire' = [wire EXCEPT ![c] = [wire[c] EXCEPT ![p] = wire[c][p] \o units]]
    BY <1>1, <1>2
  <2> QED
    BY <1>1, <1>2, <2>1, <2>2, ProceedMoves
<1>3. ASSUME wire' = wire, WriteFails(r) \/ End(r, "killed")
      PROVE  Moves(r) /\ (Arg(r) # "Good" => Stopped(r))
  <2>1. CASE Proceed(r) /\ Arg(r) = "Good"
    BY <2>1, ProceedMoves
  <2>2. CASE End(r, "failed") \/ End(r, "killed")
    BY <2>2, EndMoves
  <2> QED
    BY <1>3, <2>1, <2>2 DEF WriteFails
<1> QED
  BY <1>1, <1>2, <1>3 DEF sgx_write_sock, Reaches, Written

(* A write after the exchange of reports.                                  *)
LEMMA WriteAInv ==
  ASSUME AInv, Given, NEW r \in Role, Running(r), AtOp(r, "write") \/ AtOp(r, "send"),
         NEW units \in Seq(Unit), sgx_write_sock(r, units), mem' = mem, key' = key
  PROVE  AInv'
<1>t. Typed /\ Control
  BY DEF AInv
<1>1. /\ Elsewhere(r) /\ ConnOf(r) \in Conn
      /\ ConnOf(r) = Between => r \in Sides /\ pc[r] > ReportAt(r)
  BY <1>t, SendStep
<1>2. PICK c \in Conn : c = ConnOf(r)
  BY <1>1
<1>3. PICK p : p = Peer(r, c)
  OBVIOUS
<1>4. /\ Moves(r) /\ p \in Role /\ wire' \in [Conn -> [Role -> Seq(Unit)]]
      /\ \A d \in Conn, s \in Role : d # c \/ s # p => wire'[d][s] = wire[d][s]
      /\ \/ wire'[c][p] = wire[c][p] \o units
         \/ wire'[c][p] = wire[c][p]
  <2>1. Reaches(r, c, p, units)
    BY <1>t, <1>2, <1>3, WriteMoves
  <2> QED
    BY <2>1 DEF Reaches
<1>5. Typed' /\ Control'
  BY <1>t, <1>4, TypedKept, MovesControl DEF Typed, Moves
<1>6. ASSUME NEW s \in Sides
      PROVE  \/ wire'[Between][s] = wire[Between][s]
             \/ /\ Sent(Other(s))
                /\ \E u \in Seq(Unit) : wire'[Between][s] = wire[Between][s] \o u
  <2>0. Between \in Conn /\ s \in Role
    BY <1>t, Pairing
  <2>1. CASE c = Between /\ s = p
    <3>1. r \in Sides /\ Sent(r)
      BY <1>1, <1>2, <2>1 DEF Sent
    <3>2. Other(s) = r
      BY <1>t, <1>3, <2>1, <3>1, Pairing
    <3> QED
      BY <1>4, <2>1, <3>1, <3>2
  <2>2. CASE ~(c = Between /\ s = p)
    BY <1>4, <2>0, <2>2
  <2> QED
    BY <2>1, <2>2
<1>7. Exchange' /\ Verdicts'
  BY <1>1, <1>4, <1>6, QuietStep
<1> QED
  BY <1>5, <1>7 DEF AInv

(* The two kinds of write after the reports.                               *)
LEMMA WritesAInv ==
  ASSUME AInv, Given, NEW r \in Role, Write(r) \/ Send(r)
  PROVE  AInv'
<1>t. Typed /\ Control
  BY DEF AInv
<1>1. CASE Write(r)
  <2>1. AtOp(r, "write") /\ Running(r) /\ Arg(r) \in {"challenge", "Good"}
    BY <1>t, <1>1, SendStep DEF Write, AtOp
  <2>2. PICK u : u = Units(Message(Arg(r), None))
    OBVIOUS
  <2>3. u \in Seq(Unit)
    <3>1. Message(Arg(r), None) \in Msg
      BY <2>1, MessagesAre
    <3> QED
      BY <2>2, <3>1, UnitsAre
  <2>4. sgx_write_sock(r, u) /\ mem' = mem /\ key' = key
    BY <1>1, <2>2 DEF Write, vars
  <2> QED
    BY <2>1, <2>3, <2>4, WriteAInv
<1>2. CASE Send(r)
  <2>1. AtOp(r, "send") /\ Running(r) /\ Arg(r) \in {"N", "E", "quote"}
    BY <1>t, <1>2, SendStep DEF Send, AtOp
  <2>2. PICK got : got = mem[r][Arg(r)]
    OBVIOUS
  <2>3. got \in Seq(Unit)
    BY <1>t, <2>1, <2>2 DEF Typed, Slot
  <2>4. PICK u : u = IF Len(got) = 1 THEN Append(got, Zeros) ELSE got
    OBVIOUS
  <2>5. u \in Seq(Unit)
    BY <2>3, <2>4, MessagesAre
  <2>6. sgx_write_sock(r, u) /\ mem' = mem /\ key' = key
    BY <1>2, <2>2, <2>4 DEF Send, vars
  <2> QED
    BY <2>1, <2>5, <2>6, WriteAInv
<1> QED
  BY <1>1, <1>2

(* Operations that move a process on and do nothing else.                  *)
LEMMA PlainMoves ==
  ASSUME Typed, Control, NEW r \in Role,
         Listen(r) \/ Accept(r) \/ sgx_connect_server(r) \/ Good(r) \/ CheckQuote(r)
  PROVE  /\ Running(r) /\ Program(r)[pc[r]].op \in {"listen", "accept", "connect", "good", "check"}
         /\ wire' = wire /\ mem' = mem /\ key' = key /\ Moves(r)
<1>1. /\ Running(r) /\ Program(r)[pc[r]].op \in {"listen", "accept", "connect", "good", "check"}
      /\ wire' = wire /\ mem' = mem /\ key' = key
      /\ \/ Proceed(r) \/ End(r, "failed") \/ End(r, "killed")
  <2>1. CASE Listen(r) \/ Accept(r)
    BY <2>1 DEF Listen, Accept, AtOp, vars, netVars
  <2>2. CASE sgx_connect_server(r)
    BY <2>2 DEF sgx_connect_server, AtOp, vars
  <2>3. CASE Good(r)
    BY <2>3 DEF Good, AtOp, vars, netVars
  <2>4. CASE CheckQuote(r)
    BY <2>4 DEF CheckQuote, AtOp, vars, netVars
  <2> QED
    BY <2>1, <2>2, <2>3, <2>4
<1>2. Moves(r)
  BY <1>1, ProceedMoves, EndMoves
<1> QED
  BY <1>1, <1>2

(* They look at nothing of the exchange.                                   *)
LEMMA PlainAInv ==
  ASSUME AInv, Given, NEW r \in Role,
         Listen(r) \/ Accept(r) \/ sgx_connect_server(r) \/ Good(r) \/ CheckQuote(r)
  PROVE  AInv'
<1>t. Typed /\ Control
  BY DEF AInv
<1>1. /\ Running(r) /\ Program(r)[pc[r]].op \in {"listen", "accept", "connect", "good", "check"}
      /\ wire' = wire /\ mem' = mem /\ key' = key /\ Moves(r)
  BY <1>t, PlainMoves
<1>2. Elsewhere(r)
  BY <1>t, <1>1, OtherStep
<1> QED
  BY <1>1, <1>2, MoveAInv

-----------------------------------------------------------------------------
(* The steps of the exchange.                                              *)

(* sgx_read_sock takes one or two units from the front, or the process     *)
(* ends.                                                                   *)
ReadFrom(r, c, b) ==
  /\ Running(r) /\ Moves(r) /\ key' = key /\ secs' = secs
  /\ wire' \in [Conn -> [Role -> Seq(Unit)]] /\ mem' \in [Role -> [Slot -> Seq(Unit)]]
  /\ \A d \in Conn, s \in Role : d # c \/ s # r => wire'[d][s] = wire[d][s]
  /\ \A s \in Role, x \in Slot : s # r \/ x # b => mem'[s][x] = mem[s][x]
  /\ \/ /\ Forward(r)
        /\ \E n \in 1 .. 2 : /\ n <= Len(wire[c][r])
                             /\ mem'[r][b] = SubSeq(wire[c][r], 1, n)
                             /\ wire'[c][r] = SubSeq(wire[c][r], n + 1, Len(wire[c][r]))
     \/ Stopped(r) /\ mem' = mem /\ wire' = wire

(* It does so on every connection.                                         *)
LEMMA ReadMoves ==
  ASSUME Typed, Control, NEW r \in Role, sgx_read_sock(r),
         NEW c \in Conn, c = ConnOf(r), NEW b \in Slot, b = Arg(r)
  PROVE  ReadFrom(r, c, b)
<1>1. Running(r) /\ key' = key /\ secs' = secs
  BY DEF sgx_read_sock, AtOp, vars
<1>2. wire \in [Conn -> [Role -> Seq(Unit)]] /\ mem \in [Role -> [Slot -> Seq(Unit)]]
  BY DEF Typed
<1>3. ASSUME NEW n \in 1 .. 2, n <= Len(wire[c][r]),
             mem' = [mem EXCEPT ![r][b] = SubSeq(wire[c][r], 1, n)],
             wire' = [wire EXCEPT ![c][r] = SubSeq(@, n + 1, Len(@))],
             Proceed(r)
      PROVE  /\ Moves(r) /\ Forward(r)
             /\ wire' \in [Conn -> [Role -> Seq(Unit)]] /\ mem' \in [Role -> [Slot -> Seq(Unit)]]
             /\ \A d \in Conn, s \in Role : d # c \/ s # r => wire'[d][s] = wire[d][s]
             /\ \A s \in Role, x \in Slot : s # r \/ x # b => mem'[s][x] = mem[s][x]
             /\ mem'[r][b] = SubSeq(wire[c][r], 1, n)
             /\ wire'[c][r] = SubSeq(wire[c][r], n + 1, Len(wire[c][r]))
  <2>1. PICK w \in Seq(Unit) : w = wire[c][r]
    BY <1>2
  <2>2. PICK head, tail : head = SubSeq(w, 1, n) /\ tail = SubSeq(w, n + 1, Len(w))
    OBVIOUS
  <2>3. head \in Seq(Unit) /\ tail \in Seq(Unit)
    <3>1. Len(w) \in Int /\ n \in Int /\ n + 1 \in Int
      BY <1>3, <2>1
    <3>2. \A i \in 1 .. Len(w) : w[i] \in Unit
      BY <2>1
    <3>3. (\A i \in 1 .. n : w[i] \in Unit) /\ (\A i \in n + 1 .. Len(w) : w[i] \in Unit)
      BY <1>3, <2>1, <3>1, <3>2
    <3>4. SubSeq(w, 1, n) \in Seq(Unit)
      BY <3>1, <3>3, SubSeqProperties
    <3>5. SubSeq(w, n + 1, Len(w)) \in Seq(Unit)
      BY <3>1, <3>3, SubSeqProperties
    <3> QED
      BY <2>2, <3>4, <3>5
  <2>4. /\ mem' = [mem EXCEPT ![r] = [mem[r] EXCEPT ![b] = head]]
        /\ wire' = [wire EXCEPT ![c] = [wire[c] EXCEPT ![r] = tail]]
    BY <1>2, <1>3, <2>1, <2>2
  <2>5. /\ wire' \in [Conn -> [Role -> Seq(Unit)]] /\ wire'[c][r] = tail
        /\ \A d \in Conn, s \in Role : d # c \/ s # r => wire'[d][s] = wire[d][s]
    BY <1>2, <2>3, <2>4
  <2>6. /\ mem' \in [Role -> [Slot -> Seq(Unit)]] /\ mem'[r][b] = head
        /\ \A s \in Role, x \in Slot : s # r \/ x # b => mem'[s][x] = mem[s][x]
    BY <1>2, <2>3, <2>4
  <2> QED
    BY <1>1, <1>3, <2>1, <2>2, <2>5, <2>6, ProceedMoves
<1>4. ASSUME End(r, "failed"), wire' = wire, mem' = mem
      PROVE  Moves(r) /\ Stopped(r)
  BY <1>4, EndMoves
<1> QED
  BY <1>1, <1>2, <1>3, <1>4 DEF sgx_read_sock, ReadFrom

(* A sequence of two is the pair of its elements.                          *)
LEMMA PairIs ==
  ASSUME NEW S, NEW s \in Seq(S), Len(s) = 2
  PROVE  s = <<s[1], s[2]>>
<1>1. PICK t : t = <<s[1], s[2]>>
  OBVIOUS
<1>2. s[1] \in S /\ s[2] \in S
  <2>1. 1 \in 1 .. Len(s) /\ 2 \in 1 .. Len(s)
    OBVIOUS
  <2> QED
    BY <2>1, ElementOfSeq
<1>3. t \in Seq(S) /\ Len(t) = 2 /\ t[1] = s[1] /\ t[2] = s[2]
  BY <1>1, <1>2
<1>4. \A i \in 1 .. Len(s) : s[i] = t[i]
  BY <1>3
<1>5. s = t
  BY <1>3, <1>4, SeqEqual
<1> QED
  BY <1>1, <1>5

(* The first two units are a message when they are its halves.             *)
LEMMA TwoUnits ==
  ASSUME NEW w \in Seq(Unit), Len(w) >= 2, NEW m, w[1] = Units(m)[1], w[2] = Units(m)[2],
         NEW n \in 1 .. 2
  PROVE  Len(SubSeq(w, 1, n)) = 1 \/ SubSeq(w, 1, n) = Units(m)
<1>1. CASE n = 1
  BY <1>1
<1>2. CASE n = 2
  <2>1. PICK s : s = SubSeq(w, 1, 2)
    OBVIOUS
  <2>2. \A i \in 1 .. 2 : w[i] \in Unit
    OBVIOUS
  <2>3. s \in Seq(Unit) /\ Len(s) = 2 /\ \A i \in 1 .. 2 : s[i] = w[i]
    BY <2>1, <2>2, SubSeqProperties
  <2>4. s = <<w[1], w[2]>>
    BY <2>3, PairIs
  <2>5. Units(m) = <<Units(m)[1], Units(m)[2]>>
    BY DEF Units
  <2> QED
    BY <1>2, <2>1, <2>4, <2>5
<1> QED
  BY <1>1, <1>2

(* Reading the report: it is the first thing there is to read.             *)
LEMMA ReadReport ==
  ASSUME AInv, Given, NEW r \in Sides, sgx_read_sock(r), pc[r] = ReadAt(r),
         ConnOf(r) = Between, Arg(r) = "report"
  PROVE  Exchange' /\ Verdicts'
<1>t. Typed /\ Control /\ r \in Role
  BY Pairing DEF AInv
<1>1. PICK c \in Conn : c = Between
  BY <1>t, Pairing
<1>2. /\ Running(r) /\ Moves(r) /\ key' = key
      /\ \A d \in Conn, s \in Role : d # c \/ s # r => wire'[d][s] = wire[d][s]
      /\ \A s \in Role, x \in Slot : s # r \/ x # "report" => mem'[s][x] = mem[s][x]
      /\ \/ /\ Forward(r)
            /\ \E n \in 1 .. 2 : n <= Len(wire[c][r]) /\ mem'[r]["report"] = SubSeq(wire[c][r], 1, n)
         \/ Stopped(r) /\ mem' = mem /\ wire' = wire
  <2>1. ReadFrom(r, c, "report")
    BY <1>t, <1>1, ReadMoves DEF Slot
  <2> QED
    BY <2>1 DEF ReadFrom
<1>3. PICK o \in Sides : o = Other(r) /\ o # r /\ o \in Role /\ r = Other(o)
  BY <1>t, Pairing
<1>4. /\ ReportAt(r) \in Nat /\ ReadAt(r) \in Nat /\ VerifyAt(r) = ReadAt(r) + 1
      /\ VerifyAt(r) <= Len(Program(r)) /\ Len(Program(r)) \in Nat /\ ReportAt(r) # ReadAt(r)
  BY <1>t, Order DEF Sides
<1>5. result[r] = "running"
  BY <1>2 DEF Running
<1>6. SamePlace(o) /\ ExchangeOf(r, o) /\ ExchangeOf(o, r)
  BY <1>t, <1>2, <1>3, PlaceKept DEF AInv, Exchange
<1>7. /\ Sent(r)' <=> Sent(r)
      /\ ~Passed(r) /\ ~Passed(r)'
      /\ ~(result'[r] = "failed" /\ pc'[r] = VerifyAt(r))
      /\ pc'[r] <= ReadAt(r) => pc'[r] = pc[r] /\ mem' = mem /\ wire' = wire
  <2>1. ReportAt(r)' = ReportAt(r) /\ VerifyAt(r)' = VerifyAt(r)
    BY GivenStays
  <2>2. CASE Forward(r)
    <3>1. pc'[r] = pc[r] + 1 /\ result'[r] = "running"
      BY <1>4, <2>2 DEF Forward
    <3> QED
      BY <1>4, <1>5, <2>1, <3>1 DEF Sent, Passed
  <2>3. CASE Stopped(r) /\ mem' = mem /\ wire' = wire
    BY <1>4, <1>5, <2>1, <2>3 DEF Sent, Passed, Stopped
  <2> QED
    BY <1>2, <2>2, <2>3
<1>8. pc'[r] > ReadAt(r) =>
        Sent(o) /\ (Len(mem'[r]["report"]) = 1 \/ mem'[r]["report"] = Units(ReportOf(o)))
  <2>1. ASSUME NEW n \in 1 .. 2, n <= Len(wire[c][r]), mem'[r]["report"] = SubSeq(wire[c][r], 1, n)
        PROVE  Sent(o) /\ (Len(mem'[r]["report"]) = 1 \/ mem'[r]["report"] = Units(ReportOf(o)))
    <3>1. wire[c][r] # << >> /\ wire[c][r] \in Seq(Unit)
      BY <1>t, <2>1 DEF Typed
    <3>2. Sent(o) /\ ReportAhead(r, o)
      BY <1>1, <1>4, <1>6, <3>1 DEF ExchangeOf
    <3> QED
      BY <1>1, <2>1, <3>1, <3>2, TwoUnits DEF ReportAhead
  <2>2. Stopped(r) => ~(pc'[r] > ReadAt(r))
    BY <1>4 DEF Stopped
  <2> QED
    BY <1>2, <2>1, <2>2
<1>9. /\ Between' = Between
      /\ \A s : ReadAt(s)' = ReadAt(s) /\ VerifyAt(s)' = VerifyAt(s)
      /\ \A s : Units(ReportOf(s))' = Units(ReportOf(s))
  BY GivenStays, MessagesStay DEF Units
<1>10. ExchangeOf(r, o)'
  <2>1. pc'[r] > VerifyAt(r) => FALSE
    BY <1>7, <1>9 DEF Passed
  <2>2. ASSUME pc'[r] <= ReadAt(r)
        PROVE  IF Sent(o)' THEN ReportAhead(r, o)' ELSE wire'[Between][r] = << >>
    <3>1. pc[r] <= ReadAt(r) /\ wire' = wire
      BY <1>7, <2>2
    <3> QED
      BY <1>6, <1>9, <3>1 DEF ExchangeOf, SamePlace, ReportAhead
  <2>3. Sent(o)' <=> Sent(o)
    BY <1>6 DEF SamePlace
  <2>4. ReadAt(r)' = ReadAt(r) /\ VerifyAt(r)' = VerifyAt(r)
        /\ Units(ReportOf(o))' = Units(ReportOf(o)) /\ Between' = Between
    BY <1>9
  <2> QED
    BY <1>8, <2>1, <2>2, <2>3, <2>4 DEF ExchangeOf
<1>11. ExchangeOf(o, r)'
  <2>1. wire'[Between][o] = wire[Between][o] /\ mem'[o]["report"] = mem[o]["report"]
    BY <1>1, <1>2, <1>3 DEF Slot
  <2> QED
    BY <1>6, <1>7, <1>9, <2>1 DEF ExchangeOf, SamePlace, ReportAhead
<1>12. ASSUME NEW i \in Sides, NEW j \in Sides, i = Initiator, j = Responder
       PROVE  VerdictsOf(i, j)'
  <2>1. VerdictsOf(i, j)
    BY <1>12 DEF AInv, Verdicts
  <2>2. (i = r /\ j = o) \/ (i = o /\ j = r)
    BY <1>3, <1>12 DEF Sides
  <2>3. (ConfMatches' <=> ConfMatches) /\ (MiscCovered' <=> MiscCovered)
    BY GivenStays
  <2>4. ~Rejected(r, o)' /\ (Rejected(o, r)' => Rejected(o, r)) /\ (Passed(o)' <=> Passed(o))
    <3>1. mem'[o]["report"] = mem[o]["report"]
      BY <1>2, <1>3 DEF Slot
    <3> QED
      BY <1>2, <1>6, <1>7, <1>9, <3>1 DEF Rejected, SamePlace
  <2> QED
    BY <1>7, <2>1, <2>2, <2>3, <2>4 DEF VerdictsOf
<1> QED
  BY <1>t, <1>3, <1>10, <1>11, <1>12, BySides, Pairing DEF Sides

(* Every read.                                                             *)
LEMMA ReadAInv ==
  ASSUME AInv, Given, NEW r \in Role, sgx_read_sock(r)
  PROVE  AInv'
<1>t. Typed /\ Control /\ AtOp(r, "read")
  BY DEF AInv, sgx_read_sock
<1>1. PICK c \in Conn, b \in Slot : c = ConnOf(r) /\ b = Arg(r)
  BY <1>t, ReadStep
<1>2. /\ Running(r) /\ Moves(r) /\ key' = key
      /\ wire' \in [Conn -> [Role -> Seq(Unit)]] /\ mem' \in [Role -> [Slot -> Seq(Unit)]]
      /\ \A d \in Conn, s \in Role : d # c \/ s # r => wire'[d][s] = wire[d][s]
      /\ \A s \in Role, x \in Slot : s # r \/ x # b => mem'[s][x] = mem[s][x]
  <2>1. ReadFrom(r, c, b)
    BY <1>t, <1>1, ReadMoves
  <2> QED
    BY <2>1 DEF ReadFrom
<1>3. Typed' /\ Control'
  BY <1>t, <1>2, TypedKept, MovesControl DEF Typed, Moves
<1>4. CASE r \in Sides /\ pc[r] = ReadAt(r) /\ ConnOf(r) = Between /\ Arg(r) = "report"
  BY <1>3, <1>4, ReadReport DEF AInv
<1>5. CASE /\ Elsewhere(r) /\ Arg(r) # "report"
           /\ ConnOf(r) = Between => r \in Sides /\ pc[r] > ReadAt(r)
  <2>1. ASSUME NEW s \in Sides PROVE mem'[s]["report"] = mem[s]["report"]
    BY <1>t, <1>1, <1>2, <1>5, <2>1, Pairing DEF Slot
  <2>2. ASSUME NEW s \in Sides, pc[s] <= ReadAt(s)
        PROVE  wire'[Between][s] = wire[Between][s]
    <3>1. Between \in Conn /\ s \in Role /\ pc[s] \in Nat /\ ReadAt(s) \in Nat
      BY <1>t, Pairing, Order DEF Typed
    <3>2. Between # c \/ s # r
      BY <1>1, <1>5, <2>2, <3>1
    <3> QED
      BY <1>2, <3>1, <3>2
  <2>3. Exchange' /\ Verdicts'
    BY <1>2, <1>5, <2>1, <2>2, QuietStep
  <2> QED
    BY <1>3, <2>3 DEF AInv
<1> QED
  BY <1>t, <1>4, <1>5, ReadStep

(* The report a side has verified, and what it says.                       *)
LEMMA ReportSays ==
  ASSUME NEW o
  PROVE  /\ Units(ReportOf(o))[1].of = ReportOf(o) /\ Len(Units(ReportOf(o))) = 2
         /\ ReportOf(o).kind = "report" /\ ReportOf(o).report = MadeBy(o)
         /\ MadeBy(o).by = o /\ MadeBy(o).macKey = ReportMacKey(secs[o], TargetOf(o))
         /\ IsWhole(Units(ReportOf(o)), "report")
<1>1. Units(ReportOf(o))[1].of = ReportOf(o) /\ Len(Units(ReportOf(o))) = 2
  BY UnitsAre
<1>2. ReportOf(o).kind = "report" /\ ReportOf(o).report = MadeBy(o)
  BY DEF ReportOf, Message
<1>3. MadeBy(o).by = o /\ MadeBy(o).macKey = ReportMacKey(secs[o], TargetOf(o))
  BY DEF MadeBy
<1> QED
  BY <1>1, <1>2, <1>3 DEF IsWhole

(* The report is made for the .conf file's enclave by the initiator, for   *)
(* the initiator by the responder.                                         *)
LEMMA ReportMade ==
  ASSUME AInv, NEW r \in Role, sgx_report(r)
  PROVE  /\ Running(r) /\ r \in Sides /\ pc[r] = ReportAt(r) /\ ConnOf(r) = Between
         /\ sgx_write_sock(r, Units(ReportOf(r))) /\ Arg(r) # "Good"
         /\ mem' = mem /\ key' = key /\ secs' = secs
<1>t. Typed /\ Control /\ AtOp(r, "report") /\ Exchange
  BY DEF AInv, sgx_report
<1>1. /\ r \in Sides /\ pc[r] = ReportAt(r) /\ ConnOf(r) = Between
      /\ Arg(r) = IF r = Initiator THEN "conf" ELSE "sender"
  BY <1>t, ReportStep
<1>2. TargetInfoOf(r) = TargetOf(r)
  <2>1. CASE r = Initiator
    BY <1>1, <2>1 DEF TargetInfoOf, TargetOf
  <2>2. CASE r # Initiator
    <3>1. r = Responder /\ Other(r) = Initiator
      BY <1>1, <2>2 DEF Sides, Other
    <3>2. pc[r] > VerifyAt(r)
      BY <1>t, <1>1, <3>1, Order
    <3>3. mem[r]["report"] = Units(ReportOf(Initiator))
      BY <1>t, <1>1, <3>1, <3>2 DEF Exchange, ExchangeOf
    <3>4. mem[r]["report"][1].of.report.by = Initiator
      BY <3>3, ReportSays
    <3> QED
      BY <1>1, <2>2, <3>4 DEF TargetInfoOf, TargetOf
  <2> QED
    BY <2>1, <2>2
<1>3. report' = MadeBy(r) /\ key' = key /\ secs' = secs
  BY <1>2 DEF sgx_report, EREPORT, MadeBy
<1>4. Units(Message("report", report')) = Units(ReportOf(r))
  BY <1>3 DEF ReportOf
<1> QED
  BY <1>t, <1>1, <1>3, <1>4 DEF sgx_report, AtOp

(* Making the report: the other side has not read yet, and nothing else    *)
(* has been sent to it.                                                    *)
LEMMA ReportAInv ==
  ASSUME AInv, Given, NEW r \in Role, sgx_report(r)
  PROVE  AInv'
<1>t. Typed /\ Control /\ Exchange /\ Verdicts
  BY DEF AInv
<1>1. /\ Running(r) /\ r \in Sides /\ pc[r] = ReportAt(r) /\ ConnOf(r) = Between
      /\ sgx_write_sock(r, Units(ReportOf(r))) /\ Arg(r) # "Good"
      /\ mem' = mem /\ key' = key
  BY ReportMade
<1>2. PICK o \in Sides : o = Other(r) /\ o # r /\ o \in Role /\ r = Other(o)
                          /\ o = Peer(r, Between)
  BY <1>t, <1>1, Pairing
<1>3. PICK c \in Conn : c = Between
  BY <1>t, <1>1, Pairing
<1>4. PICK u \in Seq(Unit) : u = Units(ReportOf(r))
  BY <1>1, MessagesAre, UnitsAre DEF Sides
<1>5. Written(r, c, o, u)
  BY <1>t, <1>1, <1>2, <1>3, <1>4, WriteMoves
<1>6. Moves(r) /\ Typed' /\ Control'
  <2>1. Moves(r) /\ wire' \in [Conn -> [Role -> Seq(Unit)]]
    BY <1>5 DEF Written, Reaches
  <2> QED
    BY <1>t, <1>1, <2>1, TypedKept, MovesControl DEF Typed, Moves
<1>7. /\ ReportAt(r) \in Nat /\ ReadAt(r) \in Nat /\ VerifyAt(r) = ReadAt(r) + 1
      /\ VerifyAt(r) <= Len(Program(r)) /\ Len(Program(r)) \in Nat
      /\ ReportAt(r) < ReadAt(r) \/ VerifyAt(r) < ReportAt(r)
  BY <1>t, <1>1, Order DEF Sides
<1>8. result[r] = "running" /\ pc[r] \in Nat
  BY <1>t, <1>1 DEF Running, Typed
<1>9. SamePlace(o) /\ ExchangeOf(r, o) /\ ExchangeOf(o, r)
  BY <1>t, <1>1, <1>2, <1>6, PlaceKept DEF Exchange
<1>10. /\ Between' = Between
       /\ \A s : ReportAt(s)' = ReportAt(s) /\ ReadAt(s)' = ReadAt(s) /\ VerifyAt(s)' = VerifyAt(s)
       /\ \A s : Units(ReportOf(s))' = Units(ReportOf(s))
  BY GivenStays, MessagesStay DEF Units
<1>11. ~Sent(r) /\ wire[Between][o] = << >> /\ pc[o] <= ReadAt(o)
  <2>1. ~Sent(r)
    BY <1>1, <1>7, <1>8 DEF Sent
  <2>2. pc[o] \in Nat /\ ReadAt(o) \in Nat
    BY <1>t, <1>2, Order DEF Typed
  <2> QED
    BY <1>9, <2>1, <2>2 DEF ExchangeOf
<1>12. /\ Passed(r)' <=> Passed(r)
       /\ ~(result'[r] = "failed" /\ pc'[r] = VerifyAt(r))
       /\ pc'[r] <= ReadAt(r) <=> pc[r] <= ReadAt(r)
       /\ pc'[r] > ReadAt(r) <=> pc[r] > ReadAt(r)
       /\ pc'[r] > VerifyAt(r) <=> pc[r] > VerifyAt(r)
  <2>1. VerifyAt(r)' = VerifyAt(r)
    BY <1>10
  <2>2. CASE Forward(r)
    <3>1. \/ pc'[r] = pc[r] + 1 /\ result'[r] = "running"
          \/ pc'[r] = pc[r] /\ result'[r] = "ok" /\ pc[r] = Len(Program(r))
      BY <2>2 DEF Forward
    <3> QED
      BY <1>1, <1>7, <1>8, <2>1, <3>1 DEF Passed
  <2>3. CASE Stopped(r)
    BY <1>1, <1>7, <1>8, <2>1, <2>3 DEF Passed, Stopped
  <2> QED
    BY <1>6, <2>2, <2>3 DEF Moves
<1>13. wire'[Between][r] = wire[Between][r]
  BY <1>1, <1>2, <1>3, <1>5 DEF Written, Reaches
<1>14. ExchangeOf(r, o)'
  BY <1>1, <1>9, <1>10, <1>12, <1>13 DEF ExchangeOf, SamePlace, ReportAhead
<1>15. ExchangeOf(o, r)'
  <2>1. pc'[o] <= ReadAt(o) /\ ~(pc'[o] > ReadAt(o)) /\ ~(pc'[o] > VerifyAt(o))
    <3>1. pc'[o] = pc[o] /\ pc[o] \in Nat /\ ReadAt(o) \in Nat /\ VerifyAt(o) = ReadAt(o) + 1
      BY <1>t, <1>2, <1>6, Order DEF Typed, Moves, OthersWait
    <3> QED
      BY <1>11, <3>1
  <2>2. CASE Forward(r) /\ wire'[c][o] = wire[c][o] \o u
    <3>1. wire'[Between][o] = Units(ReportOf(r))
      BY <1>3, <1>4, <1>11, <2>2
    <3>2. ReportAhead(o, r)'
      BY <1>10, <3>1, UnitsAre DEF ReportAhead
    <3>3. Sent(r)'
      <4>1. \/ pc'[r] = pc[r] + 1
            \/ result'[r] = "ok"
        BY <2>2 DEF Forward
      <4> QED
        BY <1>1, <1>7, <1>8, <1>10, <4>1 DEF Sent
    <3> QED
      BY <1>10, <2>1, <3>2, <3>3 DEF ExchangeOf
  <2>3. CASE Stopped(r) /\ wire'[c][o] = wire[c][o]
    <3>1. ~Sent(r)'
      BY <1>1, <1>7, <1>8, <1>10, <2>3 DEF Sent, Stopped
    <3>2. wire'[Between][o] = << >>
      BY <1>3, <1>11, <2>3
    <3> QED
      BY <1>10, <2>1, <3>1, <3>2 DEF ExchangeOf
  <2> QED
    BY <1>5, <2>2, <2>3 DEF Written, Reaches
<1>16. ASSUME NEW i \in Sides, NEW j \in Sides, i = Initiator, j = Responder
       PROVE  VerdictsOf(i, j)'
  <2>1. VerdictsOf(i, j)
    BY <1>t, <1>16 DEF Verdicts
  <2>2. (i = r /\ j = o) \/ (i = o /\ j = r)
    BY <1>1, <1>2, <1>16 DEF Sides
  <2>3. (ConfMatches' <=> ConfMatches) /\ (MiscCovered' <=> MiscCovered)
    BY GivenStays
  <2>4. ~Rejected(r, o)' /\ (Rejected(o, r)' => Rejected(o, r)) /\ (Passed(o)' <=> Passed(o))
    BY <1>1, <1>9, <1>10, <1>12 DEF Rejected, SamePlace
  <2> QED
    BY <1>12, <2>1, <2>2, <2>3, <2>4 DEF VerdictsOf
<1> QED
  BY <1>t, <1>1, <1>2, <1>6, <1>14, <1>15, <1>16, BySides, Pairing DEF AInv, Sides

(* The enclave r is the one the report of o was made for, as far as the    *)
(* key request can tell.                                                   *)
Fits(r) == IF r = Initiator THEN MiscCovered ELSE ConfMatches

(* The key of EGETKEY is the one EREPORT used for exactly these.           *)
LEMMA KeyFits ==
  ASSUME Typed, NEW r \in Sides, NEW o, o = Other(r), NEW keyid, NEW req,
         req = KeyRequest(r, o, keyid)
  PROVE  DerivedKey(secs[r], req) = MadeBy(o).macKey <=> Fits(r) /\ keyid = Zero
<1>1. req.keyname = "REPORT" /\ req.keyid = keyid /\ req.miscmask = secs[o].miscselect
  BY DEF KeyRequest
<1>2. DerivedKey(secs[r], req) = ReportKey(secs[r], req)
  BY <1>1 DEF DerivedKey
<1>3. MadeBy(o).macKey = ReportMacKey(secs[o], TargetOf(o))
  BY ReportSays
<1>4. DerivedKey(secs[r], req) = MadeBy(o).macKey
        <=> /\ secs[r].mrEnclave = TargetOf(o).measurement
            /\ secs[r].attributes = TargetOf(o).attributes
            /\ secs[r].miscselect \cap secs[o].miscselect = TargetOf(o).miscselect
            /\ keyid = Zero
  BY <1>1, <1>2, <1>3, ReportKeyMatches
<1>5. CASE r = Initiator
  <2>1. o = Responder /\ o # Initiator
    BY <1>5, Pairing
  <2>2. /\ TargetOf(o).measurement = secs[r].mrEnclave
        /\ TargetOf(o).attributes = secs[r].attributes
        /\ TargetOf(o).miscselect = secs[r].miscselect
    BY <1>5, <2>1 DEF TargetOf
  <2>3. MiscCovered <=> secs[r].miscselect \cap secs[o].miscselect = secs[r].miscselect
    BY <1>5, <2>1 DEF MiscCovered
  <2> QED
    BY <1>4, <1>5, <2>2, <2>3 DEF Fits
<1>6. CASE r # Initiator
  <2>1. o = Initiator /\ r = Responder
    BY <1>6 DEF Sides, Other
  <2>2. /\ TargetOf(o).measurement = conf.enclaveHash
        /\ TargetOf(o).attributes = conf.attributes
        /\ TargetOf(o).miscselect = conf.miscselect
    BY <2>1 DEF TargetOf
  <2>3. ConfMatches <=> /\ secs[r].mrEnclave = conf.enclaveHash
                        /\ secs[r].attributes = conf.attributes
                        /\ secs[r].miscselect \cap secs[o].miscselect = conf.miscselect
    BY <2>1 DEF ConfMatches
  <2> QED
    BY <1>4, <1>6, <2>2, <2>3 DEF Fits
<1> QED
  BY <1>5, <1>6

(* The outcome of a verification: a side passes with the report of the     *)
(* other when that was made for it, and gives up otherwise.                *)
Outcome(r, o) ==
  \/ Forward(r) /\ mem[r]["report"] = Units(ReportOf(o)) /\ Fits(r)
  \/ /\ Stopped(r)
     /\ result'[r] = "failed" /\ mem[r]["report"] = Units(ReportOf(o)) /\ key'[r].req.keyid = Zero
          => ~Fits(r)

(* That is what sgx_match_mac decides.                                     *)
LEMMA VerifyOutcome ==
  ASSUME AInv, NEW r \in Role, Verify(r), NEW o, o = Other(r)
  PROVE  /\ Running(r) /\ r \in Sides /\ pc[r] = VerifyAt(r) /\ Moves(r) /\ Outcome(r, o)
         /\ wire' = wire /\ mem' = mem /\ secs' = secs
         /\ key' = [e \in Role |-> key'[e]]
         /\ \A s \in Role : s # r => key'[s] = key[s]
<1>t. Typed /\ Control /\ Exchange /\ AtOp(r, "verify") /\ Running(r)
  BY DEF AInv, Verify, AtOp
<1>1. r \in Sides /\ pc[r] = VerifyAt(r)
  BY <1>t, VerifyStep
<1>2. PICK got : got = mem[r]["report"]
  OBVIOUS
<1>3. Len(got) = 1 \/ got = Units(ReportOf(o))
  <2>1. pc[r] > ReadAt(r)
    BY <1>t, <1>1, Order
  <2> QED
    BY <1>t, <1>1, <1>2, <2>1 DEF Exchange, ExchangeOf
<1>4. IsWhole(got, "report") <=> got = Units(ReportOf(o))
  BY <1>3, ReportSays DEF IsWhole
<1>5. wire' = wire /\ mem' = mem
  BY DEF Verify, netVars
<1>k. key = [e \in Role |-> key[e]]
  BY <1>t DEF Typed
<1>6. ASSUME NEW keyid \in {Zero, "stack"}, NEW req,
             req = KeyRequest(r, IF IsWhole(got, "report") THEN got[1].of.report.by ELSE r, keyid),
             EGETKEY(r, req),
             IF IsWhole(got, "report") /\ sgx_match_mac(key'[r].dep, got[1].of)
             THEN Proceed(r) ELSE End(r, "failed")
      PROVE  /\ Moves(r) /\ Outcome(r, o) /\ secs' = secs
             /\ key' = [e \in Role |-> key'[e]]
             /\ \A s \in Role : s # r => key'[s] = key[s]
  <2>1. key' = [key EXCEPT ![r] = [req |-> req, of |-> secs[r],
                                   dep |-> DerivedKey(secs[r], req)]]
        /\ secs' = secs
    BY <1>6 DEF EGETKEY
  <2>2. /\ key'[r].req = req /\ key'[r].dep = DerivedKey(secs[r], req)
        /\ key' = [e \in Role |-> key'[e]]
        /\ \A s \in Role : s # r => key'[s] = key[s]
    BY <1>k, <2>1
  <2>3. req.keyid = keyid
    BY <1>6 DEF KeyRequest
  <2>4. ASSUME got = Units(ReportOf(o))
        PROVE  sgx_match_mac(key'[r].dep, got[1].of) <=> Fits(r) /\ keyid = Zero
    <3>1. got[1].of.report = MadeBy(o) /\ got[1].of.report.by = o
      BY <2>4, ReportSays
    <3>2. req = KeyRequest(r, o, keyid)
      BY <1>4, <1>6, <2>4, <3>1
    <3>3. DerivedKey(secs[r], req) = MadeBy(o).macKey <=> Fits(r) /\ keyid = Zero
      BY <1>t, <1>1, <3>2, KeyFits
    <3> QED
      BY <2>2, <3>1, <3>3 DEF sgx_match_mac
  <2>5. CASE IsWhole(got, "report") /\ sgx_match_mac(key'[r].dep, got[1].of)
    <3>1. Moves(r) /\ Forward(r)
      BY <1>t, <1>6, <2>5, ProceedMoves
    <3>2. mem[r]["report"] = Units(ReportOf(o)) /\ Fits(r)
      BY <1>2, <1>4, <2>4, <2>5
    <3> QED
      BY <2>1, <2>2, <3>1, <3>2 DEF Outcome
  <2>6. CASE ~(IsWhole(got, "report") /\ sgx_match_mac(key'[r].dep, got[1].of))
    <3>1. Moves(r) /\ Stopped(r)
      BY <1>t, <1>6, <2>6, EndMoves
    <3>2. mem[r]["report"] = Units(ReportOf(o)) /\ key'[r].req.keyid = Zero => ~Fits(r)
      BY <1>2, <1>4, <2>2, <2>3, <2>4, <2>6
    <3> QED
      BY <2>1, <2>2, <3>1, <3>2 DEF Outcome
  <2> QED
    BY <2>5, <2>6
<1>7. ASSUME End(r, "killed"), UNCHANGED vars
      PROVE  /\ Moves(r) /\ Outcome(r, o) /\ secs' = secs
             /\ key' = [e \in Role |-> key'[e]]
             /\ \A s \in Role : s # r => key'[s] = key[s]
  <2>1. Moves(r) /\ Stopped(r) /\ result'[r] = "killed"
    BY <1>t, <1>7, EndMoves
  <2>2. key' = key /\ secs' = secs
    BY <1>7 DEF vars
  <2> QED
    BY <1>k, <2>1, <2>2 DEF Outcome
<1>8. \/ \E keyid \in {Zero, "stack"} :
           /\ EGETKEY(r, KeyRequest(r, IF IsWhole(got, "report") THEN got[1].of.report.by ELSE r,
                                    keyid))
           /\ IF IsWhole(got, "report") /\ sgx_match_mac(key'[r].dep, got[1].of)
              THEN Proceed(r) ELSE End(r, "failed")
      \/ End(r, "killed") /\ UNCHANGED vars
  BY <1>2 DEF Verify
<1> QED
  BY <1>t, <1>1, <1>5, <1>6, <1>7, <1>8

(* A report the other side has sent was verified by it first, if it is the *)
(* responder.                                                              *)
LEMMA SentPassed ==
  ASSUME AInv, NEW o \in Sides, o = Responder, Sent(o)
  PROVE  Passed(o)
<1>t. Typed /\ Control /\ o \in Role
  BY Pairing DEF AInv
<1>1. /\ ReportAt(o) \in Nat /\ VerifyAt(o) \in Nat /\ VerifyAt(o) < ReportAt(o)
      /\ ReportAt(o) <= Len(Program(o)) /\ Len(Program(o)) \in Nat
  BY <1>t, Order
<1>2. pc[o] \in Nat
  BY <1>t DEF Typed
<1>3. CASE pc[o] > ReportAt(o)
  BY <1>1, <1>2, <1>3 DEF Passed
<1>4. CASE result[o] = "ok"
  <2>1. ~(mode = "intra" /\ o = "quote")
    BY IntraSides
  <2>2. pc[o] = Len(Program(o))
    BY <1>t, <1>4, <2>1 DEF Control
  <2> QED
    BY <1>1, <1>2, <2>2 DEF Passed
<1> QED
  BY <1>3, <1>4 DEF Sent

(* Verifying keeps the invariant.                                          *)
LEMMA VerifyAInv ==
  ASSUME AInv, Given, NEW r \in Role, Verify(r)
  PROVE  AInv'
<1>t. Typed /\ Control /\ Exchange /\ Verdicts
  BY DEF AInv
<1>1. PICK o : o = Other(r)
  OBVIOUS
<1>2. /\ Running(r) /\ r \in Sides /\ pc[r] = VerifyAt(r) /\ Moves(r) /\ Outcome(r, o)
      /\ wire' = wire /\ mem' = mem
      /\ key' = [e \in Role |-> key'[e]]
      /\ \A s \in Role : s # r => key'[s] = key[s]
  BY <1>1, VerifyOutcome
<1>3. o \in Sides /\ o # r /\ o \in Role /\ r = Other(o)
  BY <1>t, <1>1, <1>2, Pairing
<1>4. Typed' /\ Control'
  BY <1>t, <1>2, TypedKept, MovesControl DEF Typed, Moves
<1>5. /\ ReportAt(r) \in Nat /\ ReadAt(r) \in Nat /\ VerifyAt(r) = ReadAt(r) + 1
      /\ VerifyAt(r) <= Len(Program(r)) /\ ReportAt(r) <= Len(Program(r))
      /\ Len(Program(r)) \in Nat /\ ReportAt(r) # VerifyAt(r)
  BY <1>t, <1>2, Order DEF Sides
<1>6. result[r] = "running" /\ pc[r] \in Nat
  BY <1>t, <1>2 DEF Running, Typed
<1>7. SamePlace(o) /\ ExchangeOf(r, o) /\ ExchangeOf(o, r)
  BY <1>t, <1>1, <1>2, <1>3, PlaceKept DEF Exchange
<1>8. /\ Between' = Between
      /\ \A s : ReportAt(s)' = ReportAt(s) /\ ReadAt(s)' = ReadAt(s) /\ VerifyAt(s)' = VerifyAt(s)
      /\ \A s : Units(ReportOf(s))' = Units(ReportOf(s))
  BY GivenStays, MessagesStay DEF Units
<1>9. /\ Sent(r)' <=> Sent(r)
      /\ pc'[r] > ReadAt(r) /\ pc[r] > ReadAt(r)
      /\ ~(pc'[r] <= ReadAt(r))
      /\ pc'[r] > VerifyAt(r) => mem[r]["report"] = Units(ReportOf(o))
      /\ ~Passed(r)
      /\ Passed(r)' => Fits(r)
      /\ Rejected(r, o)' => ~Fits(r)
  <2>1. ReportAt(r)' = ReportAt(r) /\ VerifyAt(r)' = VerifyAt(r)
        /\ Units(ReportOf(o))' = Units(ReportOf(o))
    BY <1>8
  <2>2. CASE Forward(r) /\ mem[r]["report"] = Units(ReportOf(o)) /\ Fits(r)
    <3>1. \/ pc'[r] = pc[r] + 1 /\ result'[r] = "running"
          \/ pc'[r] = pc[r] /\ result'[r] = "ok" /\ pc[r] = Len(Program(r))
      BY <2>2 DEF Forward
    <3>2. Sent(r)' <=> Sent(r)
      BY <1>2, <1>5, <1>6, <2>1, <3>1 DEF Sent
    <3>3. ~Passed(r) /\ pc'[r] > ReadAt(r) /\ pc[r] > ReadAt(r) /\ ~(pc'[r] <= ReadAt(r))
      BY <1>2, <1>5, <1>6, <3>1 DEF Passed
    <3>4. ~Rejected(r, o)'
      BY <3>1 DEF Rejected
    <3> QED
      BY <2>2, <3>2, <3>3, <3>4
  <2>3. CASE /\ Stopped(r)
             /\ result'[r] = "failed" /\ mem[r]["report"] = Units(ReportOf(o))
                  /\ key'[r].req.keyid = Zero => ~Fits(r)
    <3>1. pc'[r] = pc[r] /\ result'[r] \in {"failed", "killed"}
      BY <2>3 DEF Stopped
    <3>2. Sent(r)' <=> Sent(r)
      BY <1>6, <2>1, <3>1 DEF Sent
    <3>3. ~Passed(r) /\ ~Passed(r)' /\ ~(pc'[r] > VerifyAt(r))
      BY <1>2, <1>5, <1>6, <2>1, <3>1 DEF Passed
    <3>4. pc'[r] > ReadAt(r) /\ pc[r] > ReadAt(r) /\ ~(pc'[r] <= ReadAt(r))
      BY <1>2, <1>5, <1>6, <3>1
    <3>5. Rejected(r, o)' => ~Fits(r)
      BY <1>2, <2>1, <2>3 DEF Rejected
    <3> QED
      BY <3>2, <3>3, <3>4, <3>5
  <2> QED
    BY <1>2, <2>2, <2>3 DEF Outcome
<1>10. ExchangeOf(r, o)'
  BY <1>2, <1>7, <1>8, <1>9 DEF ExchangeOf, SamePlace
<1>11. ExchangeOf(o, r)'
  BY <1>2, <1>7, <1>8, <1>9 DEF ExchangeOf, SamePlace, ReportAhead
<1>12. ASSUME NEW i \in Sides, NEW j \in Sides, i = Initiator, j = Responder
       PROVE  VerdictsOf(i, j)'
  <2>1. VerdictsOf(i, j)
    BY <1>t, <1>12 DEF Verdicts
  <2>2. (i = r /\ j = o) \/ (i = o /\ j = r)
    BY <1>2, <1>3, <1>12 DEF Sides
  <2>3. (ConfMatches' <=> ConfMatches) /\ (MiscCovered' <=> MiscCovered)
    BY GivenStays
  <2>4. (Rejected(o, r)' => Rejected(o, r)) /\ (Passed(o)' <=> Passed(o))
    <3>1. key'[o] = key[o]
      BY <1>2, <1>3
    <3> QED
      BY <1>2, <1>7, <1>8, <3>1 DEF Rejected, SamePlace
  <2>5. CASE i = r /\ j = o
    <3>1. Passed(o)
      <4>1. Sent(o)
        BY <1>7, <1>9 DEF ExchangeOf
      <4> QED
        BY <1>3, <1>12, <2>5, <4>1, SentPassed
    <3>2. Fits(r) <=> MiscCovered
      BY <1>12, <2>5 DEF Fits
    <3> QED
      BY <1>9, <2>1, <2>3, <2>4, <2>5, <3>1, <3>2 DEF VerdictsOf
  <2>6. CASE i = o /\ j = r
    <3>1. Fits(r) <=> ConfMatches
      BY <1>3, <1>12, <2>6 DEF Fits
    <3>2. ~Passed(i) /\ ~Rejected(i, j)
      BY <1>9, <2>1, <2>6 DEF VerdictsOf
    <3> QED
      BY <1>9, <2>3, <2>4, <2>6, <3>1, <3>2 DEF VerdictsOf
  <2> QED
    BY <2>2, <2>5, <2>6
<1> QED
  BY <1>t, <1>1, <1>2, <1>3, <1>4, <1>10, <1>11, <1>12, BySides, Pairing DEF AInv, Sides

(* What the quoting enclave puts in its buffers.                           *)
Signs(r, n, e, q) ==
  /\ \A s \in Role : s # r => mem'[s] = mem[s]
  /\ \A x \in Slot : x \notin {"N", "E", "quote"} => mem'[r][x] = mem[r][x]
  /\ mem'[r]["N"] = n /\ mem'[r]["E"] = e /\ mem'[r]["quote"] = q
  /\ mem' \in [Role -> [Slot -> Seq(Unit)]]

(* The three outcomes of sgx_make_quote: the quote is of the report that   *)
(* was verified.                                                           *)
LEMMA SignStep ==
  ASSUME AInv, NEW r \in Role, sgx_make_quote(r)
  PROVE  /\ mode = "remote" /\ r = "quote" /\ r = Responder /\ pc[r] = 8 /\ Elsewhere(r)
         /\ Running(r) /\ Moves(r) /\ Forward(r) /\ key' = key /\ secs' = secs /\ wire' = wire
         /\ \/ Signs(r, Units(Message("N", None)), Units(Message("E", None)), Units(QuoteOf))
            \/ Signs(r, Units(Message("N", None)), Units(Message("E", None)),
                     Units(ReportOf(Initiator)))
            \/ Signs(r, <<Zeros, Zeros>>, <<Zeros, Zeros>>, Units(ReportOf(Initiator)))
<1>t. Typed /\ Control /\ Exchange /\ AtOp(r, "sign") /\ Running(r)
  BY DEF AInv, sgx_make_quote, AtOp
<1>1. mode = "remote" /\ r = "quote" /\ r = Responder /\ pc[r] = 8 /\ Elsewhere(r)
      /\ pc[r] > VerifyAt(r)
  BY <1>t, OtherStep DEF AtOp
<1>2. r \in Sides /\ Other(r) = Initiator
  BY <1>t, <1>1, RemoteSides DEF Other
<1>3. PICK rep : rep = mem[r]["report"]
  OBVIOUS
<1>4. rep = Units(ReportOf(Initiator))
  BY <1>t, <1>1, <1>2, <1>3 DEF Exchange, ExchangeOf
<1>5. PICK n, e, q, z : /\ n = Units(Message("N", None)) /\ e = Units(Message("E", None))
                        /\ q = Units(QuoteOf) /\ z = <<Zeros, Zeros>>
  OBVIOUS
<1>6. Units(Message("quote", rep[1].of.report)) = q
  BY <1>4, <1>5, ReportSays DEF QuoteOf
<1>7. n \in Seq(Unit) /\ e \in Seq(Unit) /\ q \in Seq(Unit) /\ z \in Seq(Unit) /\ rep \in Seq(Unit)
  <2>1. n \in Seq(Unit) /\ e \in Seq(Unit)
    BY <1>5, MessagesAre, UnitsAre
  <2>2. q \in Seq(Unit) /\ rep \in Seq(Unit)
    BY <1>4, <1>5, MessagesAre, UnitsAre
  <2>3. z \in Seq(Unit)
    BY <1>5, MessagesAre
  <2> QED
    BY <2>1, <2>2, <2>3
<1>8. ASSUME NEW a \in Seq(Unit), NEW b \in Seq(Unit), NEW d \in Seq(Unit),
             mem' = [mem EXCEPT ![r]["N"] = a, ![r]["E"] = b, ![r]["quote"] = d]
      PROVE  Signs(r, a, b, d)
  <2>1. mem \in [Role -> [Slot -> Seq(Unit)]]
    BY <1>t DEF Typed
  <2>2. mem' = [mem EXCEPT ![r] = [mem[r] EXCEPT !["N"] = a, !["E"] = b, !["quote"] = d]]
    BY <1>8, <2>1
  <2>3. PICK f : f = [mem[r] EXCEPT !["N"] = a, !["E"] = b, !["quote"] = d]
    OBVIOUS
  <2>4. f \in [Slot -> Seq(Unit)]
    BY <2>1, <2>3
  <2>5. f["N"] = a /\ f["E"] = b /\ f["quote"] = d
        /\ \A x \in Slot : x \notin {"N", "E", "quote"} => f[x] = mem[r][x]
    BY <2>1, <2>3 DEF Slot
  <2>6. mem' = [mem EXCEPT ![r] = f]
    BY <2>2, <2>3
  <2> QED
    BY <2>1, <2>4, <2>5, <2>6 DEF Signs
<1>9. \/ mem' = [mem EXCEPT ![r]["N"] = n, ![r]["E"] = e, ![r]["quote"] = q]
      \/ mem' = [mem EXCEPT ![r]["N"] = n, ![r]["E"] = e, ![r]["quote"] = rep]
      \/ mem' = [mem EXCEPT ![r]["N"] = z, ![r]["E"] = z, ![r]["quote"] = rep]
  <2>1. PICK out \in {<<n, e, q>>, <<n, e, rep>>, <<z, z, rep>>} :
          mem' = [mem EXCEPT ![r]["N"] = out[1], ![r]["E"] = out[2], ![r]["quote"] = out[3]]
    BY <1>3, <1>5, <1>6 DEF sgx_make_quote
  <2>2. \/ out[1] = n /\ out[2] = e /\ out[3] = q
        \/ out[1] = n /\ out[2] = e /\ out[3] = rep
        \/ out[1] = z /\ out[2] = z /\ out[3] = rep
    BY <2>1
  <2> QED
    BY <2>1, <2>2
<1>10. Signs(r, n, e, q) \/ Signs(r, n, e, rep) \/ Signs(r, z, z, rep)
  BY <1>7, <1>8, <1>9
<1>11. Moves(r) /\ Forward(r) /\ key' = key /\ secs' = secs /\ wire' = wire
  <2>1. Proceed(r) /\ key' = key /\ secs' = secs /\ wire' = wire
    BY DEF sgx_make_quote, vars, netVars
  <2> QED
    BY <1>t, <2>1, ProceedMoves
<1> QED
  BY <1>t, <1>1, <1>4, <1>5, <1>10, <1>11

(* Making the quote is no step of the exchange.                            *)
LEMMA SignAInv ==
  ASSUME AInv, Given, NEW r \in Role, sgx_make_quote(r)
  PROVE  AInv'
<1>t. Typed /\ Control
  BY DEF AInv
<1>1. /\ Elsewhere(r) /\ Running(r) /\ Moves(r) /\ key' = key /\ wire' = wire
      /\ \E n, e, q : Signs(r, n, e, q)
  BY SignStep
<1>2. /\ mem' \in [Role -> [Slot -> Seq(Unit)]]
      /\ \A s \in Role : mem'[s]["report"] = mem[s]["report"]
  BY <1>1 DEF Signs, Slot
<1>3. Typed' /\ Control'
  BY <1>t, <1>1, <1>2, TypedKept, MovesControl DEF Typed, Moves
<1>4. Exchange' /\ Verdicts'
  <2>1. \A s \in Sides : mem'[s]["report"] = mem[s]["report"]
    BY <1>t, <1>2, Pairing
  <2> QED
    BY <1>1, <2>1, QuietStep
<1> QED
  BY <1>3, <1>4 DEF AInv

-----------------------------------------------------------------------------
(* The theorem about verdicts.                                             *)

(* Both sides have a program.                                              *)
LEMMA SidesRun ==
  ASSUME mode \in {"intra", "remote"}, NEW r \in Role
  PROVE  /\ ~(mode = "intra" /\ r = "quote") => Len(Program(r)) \in Nat \ {0}
         /\ mode = "intra" /\ r = "quote" => Program(r) = << >>
         /\ r \in Sides => ~(mode = "intra" /\ r = "quote")
<1>1. CASE mode = "intra"
  <2>1. Program("quote") = << >>
    BY <1>1 DEF Program
  <2> QED
    BY <1>1, <2>1, IntraSides, IntraChallengerSteps, IntraTargetSteps DEF Role
<1>2. CASE mode = "remote"
  BY <1>2, RemoteChallengerSteps, RemoteTargetSteps, RemoteQuoteSteps DEF Role
<1> QED
  BY <1>1, <1>2

(* At the start nothing has been sent and nobody has verified.             *)
LEMMA InitAInv == AttestInit => AInv
<1> SUFFICES ASSUME AttestInit PROVE AInv
  OBVIOUS
<1>1. mode \in {"intra", "remote"}
  BY ModesAssumption DEF AttestInit
<1>2. /\ \A r \in Role : pc[r] = 1
      /\ \A r \in Role : result[r] = IF Program(r) = << >> THEN "ok" ELSE "running"
      /\ \A c \in Conn, r \in Role : wire[c][r] = << >>
  BY DEF AttestInit
<1>3. Typed
  <2>1. << >> \in Seq(Unit)
    OBVIOUS
  <2>2. wire \in [Conn -> [Role -> Seq(Unit)]] /\ mem \in [Role -> [Slot -> Seq(Unit)]]
    BY <2>1 DEF AttestInit
  <2>3. key = [e \in Role |-> key[e]]
    BY RolesAssumption DEF AttestInit
  <2>4. pc \in [Role -> Nat] /\ result \in [Role -> {"running", "ok", "failed", "killed"}]
    BY DEF AttestInit
  <2> QED
    BY <1>1, <2>2, <2>3, <2>4 DEF Typed
<1>4. ASSUME NEW r \in Role, ~(mode = "intra" /\ r = "quote")
      PROVE  result[r] = "running" /\ Len(Program(r)) \in Nat \ {0}
  <2>1. Len(Program(r)) \in Nat \ {0}
    BY <1>1, <1>4, SidesRun
  <2>2. Program(r) # << >>
    BY <2>1
  <2> QED
    BY <1>2, <2>1, <2>2
<1>5. Control
  <2> SUFFICES ASSUME NEW r \in Role
               PROVE  \/ mode = "intra" /\ r = "quote" /\ result[r] = "ok"
                      \/ /\ pc[r] \in 1 .. Len(Program(r))
                         /\ result[r] = "ok" => pc[r] = Len(Program(r))
    BY DEF Control
  <2>1. CASE mode = "intra" /\ r = "quote"
    BY <1>1, <1>2, <2>1, SidesRun
  <2>2. CASE ~(mode = "intra" /\ r = "quote")
    BY <1>2, <1>4, <2>2
  <2> QED
    BY <2>1, <2>2
<1>6. ASSUME NEW r \in Sides
      PROVE  /\ r \in Role /\ result[r] = "running" /\ pc[r] = 1
             /\ ReportAt(r) \in Nat \ {0} /\ ReadAt(r) \in Nat \ {0} /\ VerifyAt(r) = ReadAt(r) + 1
  <2>1. r \in Role
    BY <1>3, Pairing
  <2>2. ReportAt(r) \in Nat \ {0} /\ ReadAt(r) \in Nat \ {0} /\ VerifyAt(r) = ReadAt(r) + 1
    BY DEF ReportAt, ReadAt, VerifyAt
  <2> QED
    BY <1>1, <1>2, <1>4, <2>1, <2>2, SidesRun
<1>7. ASSUME NEW r \in Sides, NEW o \in Sides, o = Other(r) PROVE ExchangeOf(r, o)
  <2>1. ~Sent(o)
    BY <1>6 DEF Sent
  <2>2. Between \in Conn
    BY <1>3, Pairing
  <2>3. wire[Between][r] = << >>
    BY <1>2, <1>6, <2>2
  <2>4. pc[r] <= ReadAt(r) /\ ~(pc[r] > ReadAt(r)) /\ ~(pc[r] > VerifyAt(r))
    BY <1>6
  <2> QED
    BY <2>1, <2>3, <2>4 DEF ExchangeOf
<1>8. Exchange
  BY <1>3, <1>7, Pairing DEF Exchange
<1>9. \A r \in Sides : ~Passed(r) /\ \A o : ~Rejected(r, o)
  BY <1>6 DEF Passed, Rejected
<1> QED
  BY <1>3, <1>5, <1>8, <1>9 DEF AInv, Verdicts, VerdictsOf, Sides

(* No step changes what is given.                                          *)
LEMMA StepGiven ==
  ASSUME NEW r, Step(r)
  PROVE  Given
<1>1. mode' = mode /\ conf' = conf
  BY DEF Step
<1>2. secs' = secs
  <2>1. CASE Listen(r) \/ Accept(r) \/ sgx_connect_server(r) \/ Write(r) \/ Send(r)
    BY <2>1 DEF Listen, Accept, sgx_connect_server, Write, Send, vars
  <2>2. CASE sgx_read_sock(r) \/ Good(r) \/ sgx_make_quote(r) \/ CheckQuote(r)
    BY <2>2 DEF sgx_read_sock, Good, sgx_make_quote, CheckQuote, vars
  <2>3. CASE sgx_report(r)
    BY <2>3 DEF sgx_report, EREPORT
  <2>4. CASE Verify(r)
    BY <2>4 DEF Verify, EGETKEY, vars
  <2> QED
    BY <2>1, <2>2, <2>3, <2>4 DEF Step
<1> QED
  BY <1>1, <1>2 DEF Given

(* A state is described by its variables.                                  *)
LEMMA StutterAInv == AInv /\ UNCHANGED allVars => AInv'
<1> SUFFICES ASSUME AInv, UNCHANGED allVars PROVE AInv'
  OBVIOUS
<1>1. Given /\ pc' = pc /\ result' = result /\ wire' = wire /\ mem' = mem /\ key' = key
  BY DEF allVars, vars, procVars, netVars, Given
<1>t. Typed /\ Control /\ Exchange /\ Verdicts
  BY DEF AInv
<1>2. Typed'
  BY <1>1, <1>t, TypedKept DEF Typed, PcTyped
<1>3. Control'
  BY <1>1, <1>t, GivenStays DEF Control, Given
<1>4. /\ Between' = Between
      /\ \A s : ReportAt(s)' = ReportAt(s) /\ ReadAt(s)' = ReadAt(s) /\ VerifyAt(s)' = VerifyAt(s)
      /\ \A s : Units(ReportOf(s))' = Units(ReportOf(s))
  BY <1>1, GivenStays, MessagesStay DEF Units
<1>5. ASSUME NEW s \in Sides, NEW o \in Sides, o = Other(s) PROVE ExchangeOf(s, o)'
  <2>1. ExchangeOf(s, o)
    BY <1>t, <1>5 DEF Exchange
  <2> QED
    BY <1>1, <1>4, <2>1 DEF ExchangeOf, ReportAhead, Sent
<1>6. ASSUME NEW i \in Sides, NEW j \in Sides, i = Initiator, j = Responder
      PROVE  VerdictsOf(i, j)'
  <2>1. VerdictsOf(i, j)
    BY <1>t, <1>6 DEF Verdicts
  <2>2. (ConfMatches' <=> ConfMatches) /\ (MiscCovered' <=> MiscCovered)
    BY <1>1, GivenStays
  <2>3. (Passed(i)' <=> Passed(i)) /\ (Passed(j)' <=> Passed(j))
    BY <1>1, <1>4 DEF Passed
  <2>4. (Rejected(i, j)' <=> Rejected(i, j)) /\ (Rejected(j, i)' <=> Rejected(j, i))
    BY <1>1, <1>4 DEF Rejected
  <2> QED
    BY <2>1, <2>2, <2>3, <2>4 DEF VerdictsOf
<1>7. Exchange' /\ Verdicts'
  BY <1>1, <1>t, <1>5, <1>6, BySides
<1> QED
  BY <1>2, <1>3, <1>7 DEF AInv

(* Every step keeps the invariant.                                         *)
LEMMA NextAInv == AInv /\ [AttestNext]_allVars => AInv'
<1>1. ASSUME AInv, NEW r \in Role, Step(r) PROVE AInv'
  <2>0. Given
    BY <1>1, StepGiven
  <2>1. CASE Listen(r) \/ Accept(r) \/ sgx_connect_server(r) \/ Good(r) \/ CheckQuote(r)
    BY <1>1, <2>0, <2>1, PlainAInv
  <2>2. CASE Write(r) \/ Send(r)
    BY <1>1, <2>0, <2>2, WritesAInv
  <2>3. CASE sgx_read_sock(r)
    BY <1>1, <2>0, <2>3, ReadAInv
  <2>4. CASE sgx_report(r)
    BY <1>1, <2>0, <2>4, ReportAInv
  <2>5. CASE Verify(r)
    BY <1>1, <2>0, <2>5, VerifyAInv
  <2>6. CASE sgx_make_quote(r)
    BY <1>1, <2>0, <2>6, SignAInv
  <2> QED
    BY <1>1, <2>1, <2>2, <2>3, <2>4, <2>5, <2>6 DEF Step
<1> QED
  BY <1>1, StutterAInv DEF AttestNext

(* In the program of a side only the step VerifyAt verifies.               *)
LEMMA VerifiesAt ==
  ASSUME Typed, NEW r \in Sides, NEW i \in 1 .. Len(Program(r))
  PROVE  Program(r)[i].op = "verify" <=> i = VerifyAt(r)
<1>1. mode \in {"intra", "remote"}
  BY DEF Typed
<1>2. CASE mode = "intra"
  BY <1>2, IntraSides, IntraChallengerSteps, IntraTargetSteps DEF IntraChallengerAt, IntraTargetAt
<1>3. CASE mode = "remote"
  <2>1. CASE r = "target"
    <3>1. RemoteTargetAt(i, Program(r)[i]) /\ VerifyAt(r) = 7
      BY <1>3, <2>1, RemoteSides, RemoteTargetSteps
    <3> QED
      BY <3>1 DEF RemoteTargetAt
  <2>2. CASE r = "quote"
    <3>1. RemoteQuoteAt(i, Program(r)[i]) /\ VerifyAt(r) = 4
      BY <1>3, <2>2, RemoteSides, RemoteQuoteSteps
    <3> QED
      BY <3>1 DEF RemoteQuoteAt
  <2> QED
    BY <1>3, <2>1, <2>2, RemoteSides
<1> QED
  BY <1>1, <1>2, <1>3

(* The invariant speaks about the same verdicts as VerdictsExact.          *)
LEMMA VerdictIs ==
  ASSUME AInv, NEW r \in Sides, NEW o, o = Other(r)
  PROVE  /\ Verified(r) <=> Passed(r)
         /\ Refused(r) => Rejected(r, o)
<1>t. Typed /\ Control /\ Exchange /\ r \in Role
  BY Pairing DEF AInv
<1>1. /\ ReadAt(r) \in Nat /\ VerifyAt(r) = ReadAt(r) + 1
      /\ VerifyAt(r) <= Len(Program(r)) /\ Len(Program(r)) \in Nat
  BY <1>t, Order
<1>2. pc[r] \in 1 .. Len(Program(r)) /\ pc[r] \in Nat
  BY <1>t, SidesRun DEF Control, Typed
<1>3. \A i \in 1 .. Len(Program(r)) : Program(r)[i].op = "verify" <=> i = VerifyAt(r)
  BY <1>t, VerifiesAt
<1>4. ASSUME Verified(r) PROVE Passed(r)
  <2>1. PICK i \in 1 .. pc[r] : Program(r)[i].op = "verify" /\ (i < pc[r] \/ result[r] = "ok")
    BY <1>4 DEF Verified
  <2>2. i = VerifyAt(r)
    BY <1>1, <1>2, <1>3, <2>1
  <2> QED
    BY <1>1, <1>2, <2>1, <2>2 DEF Passed
<1>5. ASSUME Passed(r) PROVE Verified(r)
  <2>1. PICK i : i = VerifyAt(r)
    OBVIOUS
  <2>2. i \in 1 .. pc[r] /\ (i < pc[r] \/ result[r] = "ok")
    BY <1>1, <1>2, <1>5, <2>1 DEF Passed
  <2>3. Program(r)[i].op = "verify"
    BY <1>1, <1>3, <2>1
  <2> QED
    BY <2>2, <2>3 DEF Verified
<1>6. ASSUME Refused(r) PROVE Rejected(r, o)
  <2>1. pc[r] = VerifyAt(r)
    BY <1>2, <1>3, <1>6 DEF Refused
  <2>2. Len(mem[r]["report"]) = 1 \/ mem[r]["report"] = Units(ReportOf(o))
    BY <1>t, <1>1, <2>1 DEF Exchange, ExchangeOf
  <2>3. Len(mem[r]["report"]) = 2
    BY <1>6 DEF Refused, IsWhole
  <2> QED
    BY <1>6, <2>1, <2>2, <2>3 DEF Refused, Rejected
<1> QED
  BY <1>4, <1>5, <1>6

(***************************************************************************)
(* Who accepts whom, for any enclaves and .conf file, whichever reads come *)
(* short and whoever gives up: sgx_match_mac decides what the identities   *)
(* say, and the side that asks accepts only once it has been accepted.     *)
(***************************************************************************)
THEOREM VerdictsRight == AttestSpec => []VerdictsExact
<1>1. AInv => VerdictsExact
  <2> SUFFICES ASSUME AInv PROVE VerdictsExact
    OBVIOUS
  <2>1. /\ Initiator \in Sides /\ Responder \in Sides
        /\ Responder = Other(Initiator) /\ Initiator = Other(Responder)
    BY Pairing DEF AInv, Sides
  <2>2. Verdicts
    BY DEF AInv
  <2>3. (Verified(Initiator) <=> Passed(Initiator)) /\ (Verified(Responder) <=> Passed(Responder))
    BY <2>1, VerdictIs
  <2>4. Refused(Initiator) => Rejected(Initiator, Responder)
    BY <2>1, VerdictIs
  <2>5. Refused(Responder) => Rejected(Responder, Initiator)
    BY <2>1, VerdictIs
  <2> QED
    BY <2>2, <2>3, <2>4, <2>5 DEF Verdicts, VerdictsOf, VerdictsExact
<1> QED
  BY <1>1, InitAInv, NextAInv, PTL DEF AttestSpec

-----------------------------------------------------------------------------
(* Where the halves of the quote are.                                      *)

(* Of the messages only the quote has its kind.                            *)
LEMMA QuoteKind ==
  ASSUME NEW u \in Unit
  PROVE  /\ u.of.kind = "quote" => u.of = QuoteOf
         /\ u = [of |-> u.of, part |-> u.part]
         /\ QuoteOf.kind = "quote" /\ QuoteOf.report = MadeBy(Initiator)
<1>1. u.of \in Msg /\ u = [of |-> u.of, part |-> u.part]
  BY DEF Unit
<1>2. \A k \in {"challenge", "Good", "N", "E", "zeros"} : Message(k, None).kind # "quote"
  BY DEF Message
<1>3. ReportOf(Initiator).kind # "quote" /\ ReportOf(Responder).kind # "quote"
  BY ReportSays
<1>4. QuoteOf.kind = "quote" /\ QuoteOf.report = MadeBy(Initiator)
  BY DEF QuoteOf, Message
<1> QED
  BY <1>1, <1>2, <1>3, <1>4 DEF Msg

(* The messages that are no quote have no half of one.                     *)
LEMMA OtherMessages ==
  /\ NoSecond(Units(Message("N", None))) /\ NoSecond(Units(Message("E", None)))
  /\ \A r : NoSecond(Units(ReportOf(r)))
  /\ NoSecond(<<Zeros, Zeros>>) /\ ~IsSecond(Zeros)
<1>1. QuoteOf.kind = "quote"
  BY DEF QuoteOf, Message
<1>2. ASSUME NEW m, m.kind # "quote" PROVE NoSecond(Units(m))
  <2>1. Units(m)[1].of = m /\ Units(m)[2].of = m /\ Len(Units(m)) = 2
    BY UnitsAre
  <2> QED
    BY <1>1, <1>2, <2>1 DEF NoSecond, IsSecond
<1>3. Message("N", None).kind = "N" /\ Message("E", None).kind = "E"
  BY DEF Message
<1>4. \A r : ReportOf(r).kind = "report"
  BY ReportSays
<1>5. ~IsSecond(Zeros)
  BY DEF IsSecond, Zeros
<1>6. NoSecond(<<Zeros, Zeros>>)
  BY <1>5 DEF NoSecond
<1> QED
  BY <1>2, <1>3, <1>4, <1>5, <1>6

(* What has no second half is paired, and so is the quote.                 *)
LEMMA PairedIs ==
  /\ \A s : NoSecond(s) => Paired(s)
  /\ Paired(Units(QuoteOf))
<1>1. Paired(Units(QuoteOf))
  <2>1. /\ Len(Units(QuoteOf)) = 2 /\ Units(QuoteOf)[1].of = QuoteOf
        /\ Units(QuoteOf)[1].part = 1 /\ Units(QuoteOf)[2].part = 2
    BY UnitsAre
  <2> QED
    BY <2>1 DEF Paired, IsFirst, IsSecond
<1> QED
  BY <1>1 DEF NoSecond, Paired

(* A read leaves the rest in order, and nearer.                            *)
LEMMA AfterRead ==
  ASSUME NEW w \in Seq(Unit), NEW n \in 1 .. 2, n <= Len(w), Chained(w),
         NEW v, v = SubSeq(w, n + 1, Len(w))
  PROVE  /\ Chained(v) /\ Len(v) = Len(w) - n
         /\ \A k \in Int : FarOff(w, k) => FarOff(v, k - 1)
<1>1. Len(w) \in Nat /\ n \in Nat
  OBVIOUS
<1>2. \A i \in n + 1 .. Len(w) : w[i] \in Unit
  BY <1>1
<1>3. Len(v) = Len(w) - n /\ \A i \in 1 .. Len(w) - n : v[i] = w[i + n]
  <2>1. /\ Len(v) = IF n + 1 <= Len(w) THEN Len(w) - (n + 1) + 1 ELSE 0
        /\ \A i \in 1 .. Len(w) - (n + 1) + 1 : v[i] = w[n + 1 + i - 1]
    BY <1>1, <1>2, SubSeqProperties
  <2>2. Len(v) = Len(w) - n
    BY <1>1, <2>1
  <2>3. ASSUME NEW i \in 1 .. Len(w) - n PROVE v[i] = w[i + n]
    <3>1. i \in 1 .. Len(w) - (n + 1) + 1 /\ n + 1 + i - 1 = i + n
      BY <1>1, <2>3
    <3> QED
      BY <2>1, <3>1
  <2> QED
    BY <2>2, <2>3
<1>4. Chained(v)
  <2> SUFFICES ASSUME NEW i \in 2 .. Len(v), IsSecond(v[i]) PROVE IsFirst(v[i - 1])
    BY DEF Chained
  <2>1. i + n \in 2 .. Len(w) /\ (i - 1) + n = (i + n) - 1
    BY <1>1, <1>3
  <2>2. v[i] = w[i + n] /\ v[i - 1] = w[(i - 1) + n]
    BY <1>1, <1>3
  <2>3. IsSecond(w[i + n])
    BY <2>2
  <2>4. IsFirst(w[(i + n) - 1])
    BY <2>1, <2>3 DEF Chained
  <2> QED
    BY <2>1, <2>2, <2>4
<1>5. ASSUME NEW k \in Int, FarOff(w, k) PROVE FarOff(v, k - 1)
  <2> SUFFICES ASSUME NEW i \in 1 .. Len(v), IsSecond(v[i]) PROVE i >= 2 * (k - 1)
    BY DEF FarOff
  <2>1. i + n \in 1 .. Len(w) /\ v[i] = w[i + n]
    BY <1>1, <1>3
  <2>2. i + n >= 2 * k
    BY <1>5, <2>1 DEF FarOff
  <2> QED
    BY <1>1, <1>3, <2>2
<1> QED
  BY <1>3, <1>4, <1>5

(* What a read returns.                                                    *)
LEMMA WhatIsRead ==
  ASSUME NEW w \in Seq(Unit), NEW n \in 1 .. 2, n <= Len(w), Chained(w),
         NEW v, v = SubSeq(w, 1, n)
  PROVE  /\ EndsQuote(v) => IsFirst(v[1])
         /\ \A k \in Nat \ {0} : FarOff(w, k) => Paired(v)
<1>1. Len(w) \in Nat /\ n \in Nat
  OBVIOUS
<1>2. \A i \in 1 .. n : w[i] \in Unit
  BY <1>1
<1>3. Len(v) = n /\ \A i \in 1 .. n : v[i] = w[i]
  <2>1. /\ Len(v) = IF 1 <= n THEN n - 1 + 1 ELSE 0
        /\ \A i \in 1 .. n - 1 + 1 : v[i] = w[1 + i - 1]
    BY <1>1, <1>2, SubSeqProperties
  <2> QED
    BY <1>1, <2>1
<1>4. ASSUME n = 2, IsSecond(v[2]) PROVE IsFirst(v[1])
  <2>1. v[1] = w[1] /\ v[2] = w[2] /\ 2 \in 2 .. Len(w)
    BY <1>1, <1>3, <1>4
  <2>2. IsSecond(w[2])
    BY <1>4, <2>1
  <2>3. IsFirst(w[2 - 1])
    BY <2>1, <2>2 DEF Chained
  <2> QED
    BY <2>1, <2>3
<1>5. ASSUME NEW k \in Nat \ {0}, FarOff(w, k), NEW i \in 1 .. Len(v), IsSecond(v[i])
      PROVE  i = 2 /\ IsFirst(v[1])
  <2>1. i \in 1 .. Len(w) /\ IsSecond(w[i])
    BY <1>1, <1>3, <1>5
  <2>2. i >= 2 * k
    BY <1>5, <2>1 DEF FarOff
  <2>3. i = 2 /\ n = 2
    BY <1>1, <1>3, <1>5, <2>2
  <2> QED
    BY <1>4, <1>5, <2>3
<1> QED
  BY <1>3, <1>4, <1>5 DEF EndsQuote, Paired

(* What is sent is added in order.                                         *)
LEMMA AfterWrite ==
  ASSUME NEW w \in Seq(Unit), NEW u \in Seq(Unit), Chained(w), Paired(u), NEW v, v = w \o u
  PROVE  /\ Chained(v) /\ Len(v) = Len(w) + Len(u)
         /\ \A k \in Int : FarOff(w, k) /\ (NoSecond(u) \/ Len(w) >= 2 * k - 2) => FarOff(v, k)
<1>1. Len(w) \in Nat /\ Len(u) \in Nat
  OBVIOUS
<1>2. /\ Len(v) = Len(w) + Len(u)
      /\ \A i \in 1 .. Len(w) + Len(u) : v[i] = IF i <= Len(w) THEN w[i] ELSE u[i - Len(w)]
  BY ConcatProperties
<1>3. ASSUME NEW i \in 1 .. Len(v), IsSecond(v[i]), ~(i <= Len(w))
      PROVE  i - Len(w) \in 1 .. Len(u) /\ IsSecond(u[i - Len(w)]) /\ i - Len(w) = 2 /\ IsFirst(u[1])
  <2>1. i - Len(w) \in 1 .. Len(u) /\ v[i] = u[i - Len(w)]
    BY <1>1, <1>2, <1>3
  <2>2. IsSecond(u[i - Len(w)])
    BY <1>3, <2>1
  <2> QED
    BY <2>1, <2>2 DEF Paired
<1>4. Chained(v)
  <2> SUFFICES ASSUME NEW i \in 2 .. Len(v), IsSecond(v[i]) PROVE IsFirst(v[i - 1])
    BY DEF Chained
  <2>1. CASE i <= Len(w)
    <3>1. v[i] = w[i] /\ v[i - 1] = w[i - 1] /\ i \in 2 .. Len(w)
      BY <1>1, <1>2, <2>1
    <3>2. IsSecond(w[i])
      BY <3>1
    <3> QED
      BY <3>1, <3>2 DEF Chained
  <2>2. CASE ~(i <= Len(w))
    <3>1. i \in 1 .. Len(v)
      BY <1>1, <1>2
    <3>2. i - Len(w) = 2 /\ IsFirst(u[1]) /\ i - Len(w) \in 1 .. Len(u)
      BY <1>3, <2>2, <3>1
    <3>3. i - 1 \in 1 .. Len(w) + Len(u) /\ ~(i - 1 <= Len(w)) /\ (i - 1) - Len(w) = 1
      BY <1>1, <3>1, <3>2
    <3>4. v[i - 1] = u[1]
      BY <1>2, <3>3
    <3> QED
      BY <3>2, <3>4
  <2> QED
    BY <2>1, <2>2
<1>5. ASSUME NEW k \in Int, FarOff(w, k), NoSecond(u) \/ Len(w) >= 2 * k - 2
      PROVE  FarOff(v, k)
  <2> SUFFICES ASSUME NEW i \in 1 .. Len(v), IsSecond(v[i]) PROVE i >= 2 * k
    BY DEF FarOff
  <2>1. CASE i <= Len(w)
    <3>1. v[i] = w[i] /\ i \in 1 .. Len(w)
      BY <1>1, <1>2, <2>1
    <3> QED
      BY <1>5, <3>1 DEF FarOff
  <2>2. CASE ~(i <= Len(w))
    <3>1. i - Len(w) \in 1 .. Len(u) /\ IsSecond(u[i - Len(w)]) /\ i - Len(w) = 2
      BY <1>3, <2>2
    <3>2. Len(w) >= 2 * k - 2
      BY <1>5, <3>1 DEF NoSecond
    <3> QED
      BY <1>1, <3>1, <3>2
  <2> QED
    BY <2>1, <2>2
<1> QED
  BY <1>2, <1>4, <1>5

(* A buffer that is sent, with a zero where a short read left one.         *)
LEMMA SentUnits ==
  ASSUME NEW got \in Seq(Unit), Paired(got), NEW u, u = IF Len(got) = 1 THEN Append(got, Zeros) ELSE got
  PROVE  u \in Seq(Unit) /\ Paired(u) /\ (Len(got) = 2 => u = got)
<1>1. CASE Len(got) = 1
  <2>1. got[1] \in Unit
    BY <1>1
  <2>2. PICK z \in Unit : z = Zeros
    BY MessagesAre
  <2>a. u = Append(got, z) /\ Len(got) = 1
    BY <1>1, <2>2
  <2>b. /\ u \in Seq(Unit) /\ Len(u) = Len(got) + 1
        /\ \A i \in 1 .. Len(got) : u[i] = got[i]
        /\ u[Len(got) + 1] = z
    <3> HIDE DEF Unit
    <3>1. /\ Append(got, z) \in Seq(Unit) /\ Len(Append(got, z)) = Len(got) + 1
          /\ \A i \in 1 .. Len(got) : Append(got, z)[i] = got[i]
          /\ Append(got, z)[Len(got) + 1] = z
      BY AppendProperties, <2>2
    <3> QED
      BY <2>a, <3>1
  <2>c. Len(u) = 2 /\ u[1] = got[1] /\ u[2] = z
    BY <2>a, <2>b
  <2>3. u \in Seq(Unit) /\ Len(u) = 2 /\ u[1] = got[1] /\ u[2] = Zeros
    BY <2>2, <2>b, <2>c
  <2>4. ~IsSecond(got[1]) /\ ~IsSecond(Zeros)
    BY <1>1, OtherMessages DEF Paired
  <2>5. Paired(u)
    BY <2>3, <2>4 DEF Paired
  <2> QED
    BY <1>1, <2>3, <2>5
<1>2. CASE Len(got) # 1
  BY <1>2
<1> QED
  BY <1>1, <1>2

(* The parts of QInv for the next state.                                   *)
LEMMA NextToTarget ==
  ASSUME Given, NEW w, w = wire'["q"]["target"], ToTarget(w, ReadsLeft', SentOnQ')
  PROVE  ToTarget(wire["q"]["target"], ReadsLeft, SentOnQ)'
BY MessagesStay DEF ToTarget, Chained, FarOff, IsFirst, IsSecond

(* The buffers, of which three matter.                                     *)
LEMMA NextBuffers ==
  ASSUME Given, NEW t, t = mem'["target"], NEW q, q = mem'["quote"], Buffers(t, q, pc'["quote"] > 8)
  PROVE  Buffers(mem["target"], mem["quote"], pc["quote"] > 8)'
BY MessagesStay DEF Buffers, Filled, Paired, NoSecond, IsFirst, IsSecond

(* And what the challenger has and will get.                               *)
LEMMA NextToChallenger ==
  ASSUME Given, NEW w, w = wire'["c"]["challenger"], NEW q, q = mem'["challenger"]["quote"],
         ToChallenger(w, q, pc'["challenger"] > 3, pc'["target"] > 7, result'["challenger"] = "ok")
  PROVE  ToChallenger(wire["c"]["challenger"], mem["challenger"]["quote"],
                      pc["challenger"] > 3, pc["target"] > 7, result["challenger"] = "ok")'
BY MessagesStay DEF ToChallenger, Chained, EndsQuote, IsFirst, IsSecond

(* Where the steps of the target leave it.                                 *)
LEMMA TargetPlaces ==
  ASSUME Typed, Control, mode = "remote", Running("target"), Moves("target")
  PROVE  /\ ReadsLeft \in 0 .. 4 /\ pc["target"] \in 1 .. 14
         /\ pc["target"] \notin {6, 9, 10, 11} \/ Stopped("target") => ReadsLeft' = ReadsLeft
         /\ pc["target"] \in {6, 9, 10, 11} /\ Forward("target") =>
              ReadsLeft' = ReadsLeft - 1 /\ ReadsLeft >= 1
         /\ pc["target"] > 7 => pc'["target"] > 7
<1>1. pc["target"] \in 1 .. 14 /\ Len(Program("target")) = 14
  BY InProgram, RemoteTargetSteps DEF Role
<1>2. CASE Forward("target")
  <2>1. \/ pc'["target"] = pc["target"] + 1 /\ pc["target"] < 14
        \/ pc'["target"] = pc["target"] /\ pc["target"] = 14
    BY <1>1, <1>2 DEF Forward
  <2> QED
    BY <1>1, <1>2, <2>1 DEF ReadsLeft, Forward, Stopped
<1>3. CASE Stopped("target")
  <2>1. pc'["target"] = pc["target"] /\ ~Forward("target")
    BY <1>1, <1>3 DEF Stopped, Forward
  <2> QED
    BY <1>1, <2>1 DEF ReadsLeft
<1> QED
  BY <1>2, <1>3 DEF Moves

(* And those of the quoting enclave.                                       *)
LEMMA QuotePlaces ==
  ASSUME Typed, Control, mode = "remote", Running("quote"), Moves("quote")
  PROVE  /\ SentOnQ \in 0 .. 3 /\ pc["quote"] \in 1 .. 11 /\ (pc["quote"] = 11 => SentOnQ = 3)
         /\ pc["quote"] \notin {5, 9, 10} \/ Stopped("quote") => SentOnQ' = SentOnQ
         /\ pc["quote"] \in {5, 9, 10} /\ Forward("quote") => SentOnQ' = SentOnQ + 1
         /\ pc'["quote"] > 8 => pc["quote"] > 8 \/ pc["quote"] = 8
<1>1. pc["quote"] \in 1 .. 11 /\ Len(Program("quote")) = 11
  BY InProgram, RemoteQuoteSteps DEF Role
<1>2. CASE Forward("quote")
  <2>1. \/ pc'["quote"] = pc["quote"] + 1 /\ pc["quote"] < 11
        \/ pc'["quote"] = pc["quote"] /\ pc["quote"] = 11
    BY <1>1, <1>2 DEF Forward
  <2> QED
    BY <1>1, <1>2, <2>1 DEF SentOnQ, Forward, Stopped
<1>3. CASE Stopped("quote")
  <2>1. pc'["quote"] = pc["quote"] /\ ~Forward("quote")
    BY <1>1, <1>3 DEF Stopped, Forward
  <2> QED
    BY <1>1, <2>1 DEF SentOnQ
<1> QED
  BY <1>2, <1>3 DEF Moves

(* A process ends with success at its last step only.                      *)
LEMMA NotLast ==
  ASSUME NEW r, Moves(r), NEW n, n = Len(Program(r)), pc[r] # n
  PROVE  result'[r] # "ok"
BY DEF Moves, Forward, Stopped

(* The steps of the others leave a process where it is.                    *)
LEMMA OthersPlaces ==
  ASSUME NEW r \in Role, Moves(r)
  PROVE  /\ r # "target" => ReadsLeft' = ReadsLeft /\ pc'["target"] = pc["target"]
         /\ r # "quote" => SentOnQ' = SentOnQ /\ pc'["quote"] = pc["quote"]
         /\ r # "challenger" => /\ pc'["challenger"] = pc["challenger"]
                                /\ result'["challenger"] = result["challenger"]
<1>1. \A s \in {"challenger", "target", "quote"} : s # r =>
         pc'[s] = pc[s] /\ result'[s] = result[s]
  BY DEF Moves, OthersWait, Role
<1> QED
  BY <1>1 DEF ReadsLeft, SentOnQ

(* A step after which the quote is where it was.                           *)
LEMMA QuoteRests ==
  ASSUME QInv, Given, mode = "remote",
         wire'["q"]["target"] = wire["q"]["target"],
         wire'["c"]["challenger"] = wire["c"]["challenger"],
         \A s \in {"N", "E", "quote"} : mem'["target"][s] = mem["target"][s],
         \A s \in {"N", "E", "quote"} : mem'["quote"][s] = mem["quote"][s],
         mem'["challenger"]["quote"] = mem["challenger"]["quote"],
         ReadsLeft' = ReadsLeft, SentOnQ' = SentOnQ,
         pc'["quote"] > 8 => pc["quote"] > 8,
         pc'["challenger"] > 3 => pc["challenger"] > 3,
         pc["target"] > 7 => pc'["target"] > 7,
         result'["challenger"] = "ok" =>
           result["challenger"] = "ok" \/ EndsQuote(mem["challenger"]["quote"])
  PROVE  QInv'
<1>1. PICK tw, cw, t, q, cq :
        /\ tw = wire'["q"]["target"] /\ cw = wire'["c"]["challenger"]
        /\ t = mem'["target"] /\ q = mem'["quote"] /\ cq = mem'["challenger"]["quote"]
  OBVIOUS
<1>2. /\ ToTarget(tw, ReadsLeft, SentOnQ)
      /\ Buffers(mem["target"], mem["quote"], pc["quote"] > 8)
      /\ ToChallenger(cw, cq, pc["challenger"] > 3, pc["target"] > 7, result["challenger"] = "ok")
  BY <1>1 DEF QInv
<1>3. ToTarget(wire["q"]["target"], ReadsLeft, SentOnQ)'
  BY <1>1, <1>2, NextToTarget
<1>4. Buffers(t, q, pc'["quote"] > 8)
  BY <1>1, <1>2 DEF Buffers, Filled
<1>5. Buffers(mem["target"], mem["quote"], pc["quote"] > 8)'
  BY <1>1, <1>4, NextBuffers
<1>6. ToChallenger(cw, cq, pc'["challenger"] > 3, pc'["target"] > 7, result'["challenger"] = "ok")
  BY <1>1, <1>2 DEF ToChallenger
<1>7. ToChallenger(wire["c"]["challenger"], mem["challenger"]["quote"],
                   pc["challenger"] > 3, pc["target"] > 7, result["challenger"] = "ok")'
  BY <1>1, <1>6, NextToChallenger
<1> QED
  BY <1>3, <1>5, <1>7 DEF QInv, Given

(* What a write adds to a connection on which the quote does not travel    *)
(* does not matter.                                                        *)
LEMMA WrittenElsewhere ==
  ASSUME NEW r \in Role, NEW c \in Conn, NEW p \in Role, NEW u, Reaches(r, c, p, u)
  PROVE  /\ Moves(r)
         /\ ~(c = "q" /\ p = "target") => wire'["q"]["target"] = wire["q"]["target"]
         /\ ~(c = "c" /\ p = "challenger") => wire'["c"]["challenger"] = wire["c"]["challenger"]
BY DEF Reaches, Conn, Role

(* Steps of the challenger.                                                *)
LEMMA ChallengerQInv ==
  ASSUME AInv, QInv, Given, mode = "remote", Step("challenger")
  PROVE  QInv'
<1> DEFINE me == "challenger"
<1>t. Typed /\ Control /\ me \in Role /\ "target" \in Role /\ "c" \in Conn /\ "q" \in Conn
  BY DEF AInv, Role, Conn
<1>y. /\ wire \in [Conn -> [Role -> Seq(Unit)]] /\ mem \in [Role -> [Slot -> Seq(Unit)]]
      /\ "quote" \in Slot /\ "quote" \in Role
  BY <1>t DEF Typed, Slot, Role
<1>p. ASSUME Running(me)
      PROVE  /\ RemoteChallengerAt(pc[me], Program(me)[pc[me]]) /\ pc[me] \in 1 .. 6
             /\ Len(Program(me)) = 6
  <2>1. pc[me] \in 1 .. Len(Program(me))
    BY <1>t, <1>p, InProgram
  <2> QED
    BY <2>1, RemoteChallengerSteps
<1>1. ASSUME Running(me), Moves(me), wire'["q"]["target"] = wire["q"]["target"],
             wire'["c"]["challenger"] = wire["c"]["challenger"], mem' = mem,
             pc[me] # 3 \/ Stopped(me),
             result'[me] = "ok" => EndsQuote(mem["challenger"]["quote"])
      PROVE  QInv'
  <2>1. ReadsLeft' = ReadsLeft /\ SentOnQ' = SentOnQ /\ pc'["quote"] = pc["quote"]
        /\ pc'["target"] = pc["target"]
    BY <1>t, <1>1, OthersPlaces
  <2>2. pc'[me] > 3 => pc[me] > 3
    <3>1. pc[me] \in 1 .. 6
      BY <1>1, <1>p
    <3> QED
      BY <1>1, <3>1 DEF Moves, Forward, Stopped
  <2> QED
    BY <1>1, <2>1, <2>2, QuoteRests
<1>2. CASE Listen(me) \/ Accept(me) \/ sgx_connect_server(me) \/ Good(me) \/ CheckQuote(me)
  <2>1. /\ Running(me) /\ Program(me)[pc[me]].op \in {"listen", "accept", "connect", "good", "check"}
        /\ wire' = wire /\ mem' = mem /\ Moves(me)
    BY <1>t, <1>2, PlainMoves
  <2>2. pc[me] # 3 /\ pc[me] \in 1 .. 6 /\ Len(Program(me)) = 6
        /\ (pc[me] = 6 => Program(me)[pc[me]].op = "check")
    BY <1>p, <2>1 DEF RemoteChallengerAt
  <2>3. ASSUME result'[me] = "ok" PROVE EndsQuote(mem["challenger"]["quote"])
    <3>1. pc[me] = 6
      BY <2>1, <2>2, <2>3 DEF Moves, Forward, Stopped
    <3>2. CheckQuote(me)
      BY <1>2, <2>2, <3>1 DEF Listen, Accept, sgx_connect_server, Good, AtOp
    <3>3. ~End(me, "failed") /\ ~End(me, "killed")
      BY <1>t, <2>3, EndMoves
    <3>4. /\ Len(mem[me]["quote"]) = 2 /\ mem[me]["quote"][2].of.kind = "quote"
          /\ mem[me]["quote"][2].part = 2
      BY <3>2, <3>3 DEF CheckQuote
    <3>5. mem[me]["quote"] \in Seq(Unit)
      BY <1>t, <1>y
    <3>6. mem[me]["quote"][2] \in Unit
      BY <3>4, <3>5
    <3> QED
      BY <3>4, <3>6, QuoteKind DEF EndsQuote, IsSecond
  <2> QED
    BY <1>1, <2>1, <2>2, <2>3
<1>3. ASSUME Running(me), NEW u \in Seq(Unit), sgx_write_sock(me, u), mem' = mem, pc[me] = 2
      PROVE  QInv'
  <2>1. ConnOf(me) = "c" /\ Peer(me, "c") = "target" /\ Len(Program(me)) = 6
    BY <1>3, <1>p DEF RemoteChallengerAt, ConnOf, Peer
  <2>2. Reaches(me, "c", "target", u)
    BY <1>t, <1>3, <2>1, WriteMoves
  <2>3. Moves(me) /\ wire'["q"]["target"] = wire["q"]["target"]
        /\ wire'["c"]["challenger"] = wire["c"]["challenger"]
    BY <1>t, <2>2, WrittenElsewhere
  <2>4. result'[me] # "ok"
    <3>1. pc[me] # 6
      BY <1>3
    <3> QED
      BY <2>1, <2>3, <3>1, NotLast
  <2> QED
    BY <1>1, <1>3, <2>3, <2>4
<1>4. CASE Write(me)
  <2>1. AtOp(me, "write") /\ Running(me)
    BY <1>4 DEF Write, AtOp
  <2>2. pc[me] = 2 /\ Arg(me) \in {"challenge", "Good"}
    BY <1>p, <2>1 DEF RemoteChallengerAt, AtOp, Arg
  <2>3. PICK u : u = Units(Message(Arg(me), None))
    OBVIOUS
  <2>4. u \in Seq(Unit)
    <3>1. Message(Arg(me), None) \in Msg
      BY <2>2, MessagesAre
    <3> QED
      BY <2>3, <3>1, UnitsAre
  <2> QED
    BY <1>3, <1>4, <2>1, <2>2, <2>3, <2>4 DEF Write
<1>5. CASE sgx_read_sock(me)
  <2>1. AtOp(me, "read") /\ Running(me)
    BY <1>5 DEF sgx_read_sock, AtOp
  <2>2. /\ pc[me] \in {3, 4, 5} /\ ConnOf(me) = "c" /\ Len(Program(me)) = 6
        /\ Arg(me) = IF pc[me] = 3 THEN "N" ELSE IF pc[me] = 4 THEN "E" ELSE "quote"
    BY <1>p, <2>1 DEF RemoteChallengerAt, AtOp, ConnOf, Arg
  <2>3. PICK b \in Slot : b = Arg(me)
    BY <2>2 DEF Slot
  <2>4. ReadFrom(me, "c", b)
    BY <1>t, <1>5, <2>2, <2>3, ReadMoves
  <2>5. /\ Moves(me) /\ wire'["q"]["target"] = wire["q"]["target"]
        /\ \A x \in Slot : mem'["target"][x] = mem["target"][x] /\ mem'["quote"][x] = mem["quote"][x]
        /\ \A x \in Slot : x # b => mem'[me][x] = mem[me][x]
    BY <1>t, <1>y, <2>4 DEF ReadFrom
  <2>6. CASE Stopped(me) /\ mem' = mem /\ wire' = wire
    BY <1>1, <2>1, <2>5, <2>6 DEF Stopped
  <2>7. ASSUME Forward(me), NEW n \in 1 .. 2, n <= Len(wire["c"][me]),
               mem'[me][b] = SubSeq(wire["c"][me], 1, n),
               wire'["c"][me] = SubSeq(wire["c"][me], n + 1, Len(wire["c"][me]))
        PROVE  QInv'
    <3>1. PICK w, v, h : /\ w \in Seq(Unit) /\ w = wire["c"][me]
                         /\ v = SubSeq(w, n + 1, Len(w)) /\ h = SubSeq(w, 1, n)
      BY <1>t, <1>y
    <3>2. ToChallenger(w, mem[me]["quote"], pc[me] > 3, pc["target"] > 7, result[me] = "ok")
      BY <3>1 DEF QInv
    <3>3. Chained(v) /\ (EndsQuote(h) => IsFirst(h[1]))
      BY <2>7, <3>1, <3>2, AfterRead, WhatIsRead DEF ToChallenger
    <3>4. w # << >>
      BY <2>7, <3>1
    <3>5. pc["target"] > 7
      BY <3>2, <3>4 DEF ToChallenger
    <3>6. ReadsLeft' = ReadsLeft /\ SentOnQ' = SentOnQ /\ pc'["quote"] = pc["quote"]
          /\ pc'["target"] = pc["target"]
      BY <1>t, <2>5, OthersPlaces
    <3>7. result'[me] # "ok"
      <4>1. pc[me] # 6
        BY <2>2
      <4> QED
        BY <2>2, <2>5, <4>1, NotLast
    <3>8. PICK cw, cq, tw, t, q : /\ cw = wire'["c"]["challenger"] /\ cq = mem'["challenger"]["quote"]
                                  /\ tw = wire'["q"]["target"]
                                  /\ t = mem'["target"] /\ q = mem'["quote"]
      OBVIOUS
    <3>9. cw = v /\ (cq = h \/ cq = mem[me]["quote"])
      BY <1>y, <2>5, <2>7, <3>1, <3>8
    <3>10. ToChallenger(cw, cq, pc'[me] > 3, pc'["target"] > 7, result'[me] = "ok")
      BY <3>2, <3>3, <3>5, <3>6, <3>7, <3>9 DEF ToChallenger
    <3>11. ToChallenger(wire["c"]["challenger"], mem["challenger"]["quote"],
                        pc["challenger"] > 3, pc["target"] > 7, result["challenger"] = "ok")'
      BY <3>8, <3>10, NextToChallenger
    <3>12. ToTarget(tw, ReadsLeft', SentOnQ')
      BY <2>5, <3>6, <3>8 DEF QInv
    <3>13. ToTarget(wire["q"]["target"], ReadsLeft, SentOnQ)'
      BY <3>8, <3>12, NextToTarget
    <3>14. Buffers(t, q, pc'["quote"] > 8)
      BY <2>5, <3>6, <3>8 DEF QInv, Buffers, Filled, Slot
    <3>15. Buffers(mem["target"], mem["quote"], pc["quote"] > 8)'
      BY <3>8, <3>14, NextBuffers
    <3> QED
      BY <3>11, <3>13, <3>15 DEF QInv, Given
  <2> QED
    BY <2>4, <2>6, <2>7 DEF ReadFrom
<1>6. ~Send(me) /\ ~sgx_report(me) /\ ~Verify(me) /\ ~sgx_make_quote(me)
  <2>1. ASSUME Running(me)
        PROVE  Program(me)[pc[me]].op \notin {"report", "verify", "send", "good", "sign"}
    BY <1>p, <2>1 DEF RemoteChallengerAt
  <2> QED
    BY <2>1 DEF Send, sgx_report, Verify, sgx_make_quote, AtOp
<1> QED
  BY <1>2, <1>4, <1>5, <1>6 DEF Step

(* Steps of the target that do not touch the quote.                        *)
LEMMA TargetQuiet ==
  ASSUME AInv, QInv, Given, mode = "remote", Running("target"), Moves("target"),
         wire'["q"]["target"] = wire["q"]["target"],
         wire'["c"]["challenger"] = wire["c"]["challenger"],
         \A s \in {"N", "E", "quote"} : mem'["target"][s] = mem["target"][s],
         \A s \in {"N", "E", "quote"} : mem'["quote"][s] = mem["quote"][s],
         mem'["challenger"]["quote"] = mem["challenger"]["quote"],
         pc["target"] \notin {6, 9, 10, 11} \/ Stopped("target")
  PROVE  QInv'
<1>1. ReadsLeft' = ReadsLeft /\ (pc["target"] > 7 => pc'["target"] > 7)
  BY TargetPlaces DEF AInv
<1>2. /\ SentOnQ' = SentOnQ /\ pc'["quote"] = pc["quote"]
      /\ pc'["challenger"] = pc["challenger"] /\ result'["challenger"] = result["challenger"]
  BY OthersPlaces DEF Role
<1> QED
  BY <1>1, <1>2, QuoteRests

(* The target reads from the quoting enclave.                              *)
LEMMA TargetReads ==
  ASSUME AInv, QInv, Given, mode = "remote", pc["target"] \in {6, 9, 10, 11},
         NEW b \in Slot, ReadFrom("target", "q", b)
  PROVE  QInv'
<1> DEFINE me == "target"
<1>t. /\ Typed /\ Control /\ me \in Role /\ "quote" \in Role /\ "challenger" \in Role
      /\ "c" \in Conn /\ "q" \in Conn /\ {"N", "E", "quote"} \subseteq Slot
  BY DEF AInv, Role, Conn, Slot
<1>y. wire \in [Conn -> [Role -> Seq(Unit)]]
  BY <1>t DEF Typed
<1>1. /\ Running(me) /\ Moves(me) /\ wire'["c"]["challenger"] = wire["c"]["challenger"]
      /\ \A x \in Slot : mem'["quote"][x] = mem["quote"][x]
      /\ \A x \in Slot : mem'["challenger"][x] = mem["challenger"][x]
      /\ \A x \in Slot : x # b => mem'[me][x] = mem[me][x]
  BY <1>t DEF ReadFrom
<1>2. CASE Stopped(me) /\ mem' = mem /\ wire' = wire
  BY <1>1, <1>2, TargetQuiet
<1>3. ASSUME Forward(me), NEW n \in 1 .. 2, n <= Len(wire["q"][me]),
             mem'[me][b] = SubSeq(wire["q"][me], 1, n),
             wire'["q"][me] = SubSeq(wire["q"][me], n + 1, Len(wire["q"][me]))
      PROVE  QInv'
  <2>1. PICK w, v, h : /\ w \in Seq(Unit) /\ w = wire["q"][me]
                       /\ v = SubSeq(w, n + 1, Len(w)) /\ h = SubSeq(w, 1, n)
    BY <1>t, <1>y
  <2>2. PICK k, j : k = ReadsLeft /\ j = SentOnQ
    OBVIOUS
  <2>3. k \in Nat \ {0} /\ ReadsLeft' = k - 1 /\ (pc[me] > 7 => pc'[me] > 7)
    BY <1>t, <1>1, <1>3, <2>2, TargetPlaces
  <2>4. /\ SentOnQ' = j /\ pc'["quote"] = pc["quote"]
        /\ pc'["challenger"] = pc["challenger"] /\ result'["challenger"] = result["challenger"]
    BY <1>t, <1>1, <2>2, OthersPlaces
  <2>5. j \in Int
    BY <2>2 DEF SentOnQ
  <2>6. Chained(w) /\ FarOff(w, k) /\ Len(w) >= 2 * (j + k - 4)
    BY <2>1, <2>2 DEF QInv, ToTarget
  <2>7. Chained(v) /\ Len(v) = Len(w) - n /\ FarOff(v, k - 1)
    <3>1. n <= Len(w) /\ Chained(w) /\ v = SubSeq(w, n + 1, Len(w))
      BY <1>3, <2>1, <2>6
    <3>2. /\ Chained(v) /\ Len(v) = Len(w) - n
          /\ \A x \in Int : FarOff(w, x) => FarOff(v, x - 1)
      BY <2>1, <3>1, AfterRead
    <3>3. k \in Int
      BY <2>3
    <3> QED
      BY <2>6, <3>2, <3>3
  <2>8. Paired(h)
    BY <1>3, <2>1, <2>3, <2>6, WhatIsRead
  <2>9. Len(v) >= 2 * (j + (k - 1) - 4)
    <3>1. Len(w) \in Nat /\ n \in 1 .. 2
      BY <2>1
    <3> QED
      BY <2>3, <2>5, <2>6, <2>7, <3>1
  <2>10. ToTarget(v, k - 1, j)
    BY <2>7, <2>9 DEF ToTarget
  <2>11. PICK cw, cq, tw, t, q : /\ cw = wire'["c"]["challenger"] /\ cq = mem'["challenger"]["quote"]
                                 /\ tw = wire'["q"]["target"]
                                 /\ t = mem'["target"] /\ q = mem'["quote"]
    OBVIOUS
  <2>12. ToTarget(wire["q"]["target"], ReadsLeft, SentOnQ)'
    <3>1. tw = v
      BY <1>3, <2>1, <2>11
    <3>2. ToTarget(tw, ReadsLeft', SentOnQ')
      BY <2>3, <2>4, <2>10, <3>1
    <3> QED
      BY <2>11, <3>2, NextToTarget
  <2>13. Buffers(mem["target"], mem["quote"], pc["quote"] > 8)'
    <3>1. \A s \in {"N", "E", "quote"} : t[s] = h \/ t[s] = mem["target"][s]
      BY <1>t, <1>1, <1>3, <2>1, <2>11
    <3>2. \A s \in {"N", "E", "quote"} : Paired(mem["target"][s])
      BY DEF QInv, Buffers
    <3>3. \A s \in {"N", "E", "quote"} : Paired(t[s])
      BY <2>8, <3>1, <3>2
    <3>4. pc'["quote"] > 8 => Filled(q)
      BY <1>t, <1>1, <2>4, <2>11 DEF QInv, Buffers, Filled
    <3>5. Buffers(t, q, pc'["quote"] > 8)
      BY <3>3, <3>4 DEF Buffers
    <3> QED
      BY <2>11, <3>5, NextBuffers
  <2>14. ToChallenger(wire["c"]["challenger"], mem["challenger"]["quote"],
                      pc["challenger"] > 3, pc["target"] > 7, result["challenger"] = "ok")'
    <3>1. cw = wire["c"]["challenger"] /\ cq = mem["challenger"]["quote"]
      BY <1>t, <1>1, <2>11
    <3>2. ToChallenger(cw, cq, pc'["challenger"] > 3, pc'["target"] > 7, result'["challenger"] = "ok")
      BY <2>3, <2>4, <3>1 DEF QInv, ToChallenger
    <3> QED
      BY <2>11, <3>2, NextToChallenger
  <2> QED
    BY <2>12, <2>13, <2>14 DEF QInv, Given
<1> QED
  BY <1>2, <1>3 DEF ReadFrom

(* The target passes on what it has.                                       *)
LEMMA TargetSends ==
  ASSUME AInv, QInv, Given, mode = "remote", Running("target"), pc["target"] \in {12, 13, 14},
         NEW u \in Seq(Unit), Paired(u), Written("target", "c", "challenger", u), mem' = mem
  PROVE  QInv'
<1> DEFINE me == "target"
<1>t. /\ Typed /\ Control /\ me \in Role /\ "challenger" \in Role /\ "c" \in Conn
  BY DEF AInv, Role, Conn
<1>1. Moves(me) /\ wire'["q"]["target"] = wire["q"]["target"]
  BY <1>t, WrittenElsewhere DEF Written
<1>2. CASE Stopped(me) /\ wire'["c"]["challenger"] = wire["c"]["challenger"]
  BY <1>1, <1>2, TargetQuiet
<1>3. CASE Forward(me) /\ wire'["c"]["challenger"] = wire["c"]["challenger"] \o u
  <2>1. PICK w, v : w \in Seq(Unit) /\ w = wire["c"]["challenger"] /\ v = w \o u
    BY <1>t DEF Typed
  <2>2. /\ Chained(w)
        /\ EndsQuote(mem["challenger"]["quote"]) => IsFirst(mem["challenger"]["quote"][1])
        /\ result["challenger"] = "ok" => EndsQuote(mem["challenger"]["quote"])
    BY <2>1 DEF QInv, ToChallenger
  <2>3. Chained(v)
    BY <2>1, <2>2, AfterWrite
  <2>4. pc'[me] > 7 /\ ReadsLeft' = ReadsLeft
    <3>1. pc[me] > 7 /\ pc[me] \notin {6, 9, 10, 11}
      OBVIOUS
    <3> QED
      BY <1>t, <1>1, <3>1, TargetPlaces
  <2>5. /\ SentOnQ' = SentOnQ /\ pc'["quote"] = pc["quote"]
        /\ pc'["challenger"] = pc["challenger"] /\ result'["challenger"] = result["challenger"]
    BY <1>t, <1>1, OthersPlaces
  <2>6. PICK cw, cq, tw, t, q : /\ cw = wire'["c"]["challenger"] /\ cq = mem'["challenger"]["quote"]
                                /\ tw = wire'["q"]["target"]
                                /\ t = mem'["target"] /\ q = mem'["quote"]
    OBVIOUS
  <2>7. ToChallenger(wire["c"]["challenger"], mem["challenger"]["quote"],
                     pc["challenger"] > 3, pc["target"] > 7, result["challenger"] = "ok")'
    <3>1. cw = v /\ cq = mem["challenger"]["quote"]
      BY <1>3, <2>1, <2>6
    <3>2. ToChallenger(cw, cq, pc'["challenger"] > 3, pc'["target"] > 7, result'["challenger"] = "ok")
      BY <2>2, <2>3, <2>4, <2>5, <3>1 DEF ToChallenger
    <3> QED
      BY <2>6, <3>2, NextToChallenger
  <2>8. ToTarget(wire["q"]["target"], ReadsLeft, SentOnQ)'
    <3>1. ToTarget(tw, ReadsLeft', SentOnQ')
      BY <1>1, <2>4, <2>5, <2>6 DEF QInv
    <3> QED
      BY <2>6, <3>1, NextToTarget
  <2>9. Buffers(mem["target"], mem["quote"], pc["quote"] > 8)'
    <3>1. Buffers(t, q, pc'["quote"] > 8)
      BY <2>5, <2>6 DEF QInv
    <3> QED
      BY <2>6, <3>1, NextBuffers
  <2> QED
    BY <2>7, <2>8, <2>9 DEF QInv, Given
<1> QED
  BY <1>2, <1>3 DEF Written

(* Steps of the target.                                                    *)
LEMMA TargetQInv ==
  ASSUME AInv, QInv, Given, mode = "remote", Step("target")
  PROVE  QInv'
<1> DEFINE me == "target"
<1>t. /\ Typed /\ Control /\ me \in Role /\ "quote" \in Role /\ "challenger" \in Role
      /\ "c" \in Conn /\ "q" \in Conn /\ {"N", "E", "quote"} \subseteq Slot
  BY DEF AInv, Role, Conn, Slot
<1>p. ASSUME Running(me)
      PROVE  /\ RemoteTargetAt(pc[me], Program(me)[pc[me]]) /\ pc[me] \in 1 .. 14
             /\ Len(Program(me)) = 14
  <2>1. pc[me] \in 1 .. Len(Program(me))
    BY <1>t, <1>p, InProgram
  <2> QED
    BY <2>1, RemoteTargetSteps
<1>1. CASE Listen(me) \/ Accept(me) \/ sgx_connect_server(me) \/ Good(me) \/ CheckQuote(me)
  <2>1. /\ Running(me) /\ Program(me)[pc[me]].op \in {"listen", "accept", "connect", "good", "check"}
        /\ wire' = wire /\ mem' = mem /\ Moves(me)
    BY <1>t, <1>1, PlainMoves
  <2>2. pc[me] \notin {6, 9, 10, 11}
    BY <1>p, <2>1 DEF RemoteTargetAt
  <2> QED
    BY <2>1, <2>2, TargetQuiet
<1>2. CASE Verify(me)
  <2>0. PICK o : o = Other(me)
    OBVIOUS
  <2>1. Running(me) /\ wire' = wire /\ mem' = mem /\ Moves(me)
    BY <1>t, <1>2, <2>0, VerifyOutcome
  <2>2. Program(me)[pc[me]].op = "verify"
    BY <1>2 DEF Verify, AtOp
  <2>3. pc[me] \notin {6, 9, 10, 11}
    BY <1>p, <2>1, <2>2 DEF RemoteTargetAt
  <2> QED
    BY <2>1, <2>3, TargetQuiet
<1>3. ASSUME Running(me), NEW u \in Seq(Unit), sgx_write_sock(me, u), mem' = mem,
             pc[me] \in {5, 8}
      PROVE  QInv'
  <2>1. ConnOf(me) = "q" /\ Peer(me, "q") = "quote"
    BY <1>3, <1>p DEF RemoteTargetAt, ConnOf, Peer
  <2>2. Reaches(me, "q", "quote", u)
    BY <1>t, <1>3, <2>1, WriteMoves
  <2>3. Moves(me) /\ wire'["q"]["target"] = wire["q"]["target"]
        /\ wire'["c"]["challenger"] = wire["c"]["challenger"]
    BY <1>t, <2>2, WrittenElsewhere
  <2>4. pc[me] \notin {6, 9, 10, 11}
    BY <1>3
  <2> QED
    BY <1>3, <2>3, <2>4, TargetQuiet
<1>4. CASE Write(me)
  <2>1. AtOp(me, "write") /\ Running(me)
    BY <1>4 DEF Write, AtOp
  <2>2. pc[me] = 8 /\ Arg(me) \in {"challenge", "Good"}
    BY <1>p, <2>1 DEF RemoteTargetAt, AtOp, Arg
  <2>3. PICK u : u = Units(Message(Arg(me), None))
    OBVIOUS
  <2>4. u \in Seq(Unit)
    <3>1. Message(Arg(me), None) \in Msg
      BY <2>2, MessagesAre
    <3> QED
      BY <2>3, <3>1, UnitsAre
  <2> QED
    BY <1>3, <1>4, <2>1, <2>2, <2>3, <2>4 DEF Write
<1>5. CASE sgx_report(me)
  <2>1. Running(me) /\ me \in Sides /\ sgx_write_sock(me, Units(ReportOf(me))) /\ mem' = mem
    BY <1>t, <1>5, ReportMade
  <2>2. Program(me)[pc[me]].op = "report"
    BY <1>5 DEF sgx_report, AtOp
  <2>3. pc[me] = 5
    BY <1>p, <2>1, <2>2 DEF RemoteTargetAt
  <2>4. Units(ReportOf(me)) \in Seq(Unit)
    BY <2>1, MessagesAre, UnitsAre DEF Sides
  <2> QED
    BY <1>3, <2>1, <2>3, <2>4
<1>6. CASE Send(me)
  <2>1. AtOp(me, "send") /\ Running(me)
    BY <1>6 DEF Send, AtOp
  <2>2. /\ pc[me] \in {12, 13, 14} /\ ConnOf(me) = "c" /\ Arg(me) \in {"N", "E", "quote"}
        /\ Peer(me, "c") = "challenger"
    BY <1>p, <2>1 DEF RemoteTargetAt, AtOp, Arg, ConnOf, Peer
  <2>3. PICK got : got = mem[me][Arg(me)]
    OBVIOUS
  <2>4. got \in Seq(Unit) /\ Paired(got)
    BY <1>t, <2>2, <2>3 DEF Typed, QInv, Buffers
  <2>5. PICK u : u = IF Len(got) = 1 THEN Append(got, Zeros) ELSE got
    OBVIOUS
  <2>6. u \in Seq(Unit) /\ Paired(u)
    BY <2>4, <2>5, SentUnits
  <2>7. sgx_write_sock(me, u) /\ mem' = mem
    BY <1>6, <2>3, <2>5 DEF Send
  <2>8. Written(me, "c", "challenger", u)
    BY <1>t, <2>1, <2>2, <2>6, <2>7, WriteMoves
  <2> QED
    BY <2>1, <2>2, <2>6, <2>7, <2>8, TargetSends
<1>7. CASE sgx_read_sock(me)
  <2>1. AtOp(me, "read") /\ Running(me)
    BY <1>7 DEF sgx_read_sock, AtOp
  <2>2. /\ pc[me] \in {3, 6, 9, 10, 11}
        /\ ConnOf(me) = IF pc[me] = 3 THEN "c" ELSE "q"
        /\ pc[me] = 3 => Arg(me) = "msg"
    BY <1>p, <2>1 DEF RemoteTargetAt, AtOp, ConnOf, Arg
  <2>3. PICK b \in Slot : b = Arg(me)
    BY <1>t, <2>1, ReadStep
  <2>4. CASE pc[me] = 3
    <3>1. ReadFrom(me, "c", b) /\ b = "msg"
      BY <1>t, <1>7, <2>2, <2>3, <2>4, ReadMoves
    <3>2. /\ Moves(me) /\ wire'["q"]["target"] = wire["q"]["target"]
          /\ wire'["c"]["challenger"] = wire["c"]["challenger"]
          /\ \A s \in {"N", "E", "quote"} : mem'["target"][s] = mem["target"][s]
          /\ \A s \in {"N", "E", "quote"} : mem'["quote"][s] = mem["quote"][s]
          /\ mem'["challenger"]["quote"] = mem["challenger"]["quote"]
      BY <1>t, <3>1 DEF ReadFrom
    <3>3. pc[me] \notin {6, 9, 10, 11}
      BY <2>4
    <3> QED
      BY <2>1, <3>2, <3>3, TargetQuiet
  <2>5. CASE pc[me] # 3
    <3>1. pc[me] \in {6, 9, 10, 11} /\ ConnOf(me) = "q"
      BY <2>2, <2>5
    <3>2. ReadFrom(me, "q", b)
      BY <1>t, <1>7, <2>3, <3>1, ReadMoves
    <3> QED
      BY <3>1, <3>2, TargetReads
  <2> QED
    BY <2>4, <2>5
<1>8. ~sgx_make_quote(me)
  <2>1. ASSUME Running(me) PROVE Program(me)[pc[me]].op # "sign"
    BY <1>p, <2>1 DEF RemoteTargetAt
  <2> QED
    BY <2>1 DEF sgx_make_quote, AtOp
<1> QED
  BY <1>1, <1>2, <1>4, <1>5, <1>6, <1>7, <1>8 DEF Step


(* Steps of the quoting enclave that leave the quote where it is.          *)
LEMMA QuoteQuiet ==
  ASSUME AInv, QInv, Given, mode = "remote", Running("quote"), Moves("quote"),
         wire'["q"]["target"] = wire["q"]["target"],
         wire'["c"]["challenger"] = wire["c"]["challenger"],
         \A s \in {"N", "E", "quote"} : mem'["target"][s] = mem["target"][s],
         \A s \in {"N", "E", "quote"} : mem'["quote"][s] = mem["quote"][s],
         mem'["challenger"]["quote"] = mem["challenger"]["quote"],
         pc["quote"] \notin {5, 8, 9, 10} \/ Stopped("quote")
  PROVE  QInv'
<1>1. SentOnQ' = SentOnQ
  BY QuotePlaces DEF AInv
<1>2. pc'["quote"] > 8 => pc["quote"] > 8
  <2>1. pc["quote"] \in 1 .. 11
    BY QuotePlaces DEF AInv
  <2> QED
    BY <2>1 DEF Moves, Forward, Stopped
<1>3. /\ ReadsLeft' = ReadsLeft /\ pc'["target"] = pc["target"]
      /\ pc'["challenger"] = pc["challenger"] /\ result'["challenger"] = result["challenger"]
  BY OthersPlaces DEF Role
<1> QED
  BY <1>1, <1>2, <1>3, QuoteRests

(* The quoting enclave sends: its report, the key, and last the quote,     *)
(* before which the target has, or has had, enough to read.                *)
LEMMA QuoteSends ==
  ASSUME AInv, QInv, Given, mode = "remote", Running("quote"), pc["quote"] \in {5, 9, 10, 11},
         NEW u \in Seq(Unit), Len(u) = 2, Paired(u), pc["quote"] # 11 => NoSecond(u),
         Written("quote", "q", "target", u), mem' = mem
  PROVE  QInv'
<1> DEFINE me == "quote"
<1>t. /\ Typed /\ Control /\ me \in Role /\ "target" \in Role /\ "q" \in Conn
  BY DEF AInv, Role, Conn
<1>1. Moves(me) /\ wire'["c"]["challenger"] = wire["c"]["challenger"]
  BY <1>t, WrittenElsewhere DEF Written
<1>2. CASE Stopped(me) /\ wire'["q"]["target"] = wire["q"]["target"]
  BY <1>1, <1>2, QuoteQuiet
<1>3. CASE Forward(me) /\ wire'["q"]["target"] = wire["q"]["target"] \o u
  <2>1. PICK w, v : w \in Seq(Unit) /\ w = wire["q"]["target"] /\ v = w \o u
    BY <1>t DEF Typed
  <2>2. PICK k, j, i : k = ReadsLeft /\ j = SentOnQ /\ i = SentOnQ'
    OBVIOUS
  <2>3. k \in Int /\ j \in 0 .. 3 /\ (pc[me] = 11 => j = 3) /\ (i = j \/ i = j + 1)
    <3>1. k \in Int
      BY <2>2 DEF ReadsLeft
    <3> QED
      BY <1>t, <1>1, <1>3, <2>2, <3>1, QuotePlaces
  <2>4. Chained(w) /\ FarOff(w, k) /\ Len(w) >= 2 * (j + k - 4)
    BY <2>1, <2>2 DEF QInv, ToTarget
  <2>5. /\ Chained(v) /\ Len(v) = Len(w) + Len(u)
        /\ \A x \in Int : FarOff(w, x) /\ (NoSecond(u) \/ Len(w) >= 2 * x - 2) => FarOff(v, x)
    BY <2>1, <2>4, AfterWrite
  <2>6. NoSecond(u) \/ Len(w) >= 2 * k - 2
    BY <2>3, <2>4
  <2>7. FarOff(v, k)
    BY <2>3, <2>4, <2>5, <2>6
  <2>8. Len(v) >= 2 * (i + k - 4)
    <3>1. Len(w) \in Nat /\ Len(u) = 2
      BY <2>1
    <3> QED
      BY <2>3, <2>4, <2>5, <3>1
  <2>9. ToTarget(v, k, i)
    BY <2>5, <2>7, <2>8 DEF ToTarget
  <2>10. /\ ReadsLeft' = ReadsLeft /\ pc'["target"] = pc["target"]
         /\ pc'["challenger"] = pc["challenger"] /\ result'["challenger"] = result["challenger"]
    BY <1>t, <1>1, OthersPlaces
  <2>11. PICK cw, cq, tw, t, q : /\ cw = wire'["c"]["challenger"] /\ cq = mem'["challenger"]["quote"]
                                 /\ tw = wire'["q"]["target"]
                                 /\ t = mem'["target"] /\ q = mem'["quote"]
    OBVIOUS
  <2>12. ToTarget(wire["q"]["target"], ReadsLeft, SentOnQ)'
    <3>1. tw = v
      BY <1>3, <2>1, <2>11
    <3>2. ToTarget(tw, ReadsLeft', SentOnQ')
      BY <2>2, <2>9, <2>10, <3>1
    <3> QED
      BY <2>11, <3>2, NextToTarget
  <2>13. Buffers(mem["target"], mem["quote"], pc["quote"] > 8)'
    <3>1. pc'[me] > 8 => pc[me] > 8
      <4>1. pc[me] \in {5, 9, 10, 11}
        OBVIOUS
      <4> QED
        BY <1>3, <4>1 DEF Forward
    <3>2. Buffers(t, q, pc'["quote"] > 8)
      BY <2>11, <3>1 DEF QInv, Buffers
    <3> QED
      BY <2>11, <3>2, NextBuffers
  <2>14. ToChallenger(wire["c"]["challenger"], mem["challenger"]["quote"],
                      pc["challenger"] > 3, pc["target"] > 7, result["challenger"] = "ok")'
    <3>1. ToChallenger(cw, cq, pc'["challenger"] > 3, pc'["target"] > 7, result'["challenger"] = "ok")
      BY <1>1, <2>10, <2>11 DEF QInv
    <3> QED
      BY <2>11, <3>1, NextToChallenger
  <2> QED
    BY <2>12, <2>13, <2>14 DEF QInv, Given
<1> QED
  BY <1>2, <1>3 DEF Written

(* Whatever becomes of the signature, the buffers are filled.              *)
LEMMA SignedIsFilled ==
  ASSUME NEW n, NEW e, NEW s, NEW m,
         \/ n = Units(Message("N", None)) /\ e = Units(Message("E", None)) /\ s = Units(QuoteOf)
         \/ /\ n = Units(Message("N", None)) /\ e = Units(Message("E", None))
            /\ s = Units(ReportOf(Initiator))
         \/ n = <<Zeros, Zeros>> /\ e = <<Zeros, Zeros>> /\ s = Units(ReportOf(Initiator)),
         m["N"] = n, m["E"] = e, m["quote"] = s
  PROVE  Filled(m)
<1>1. NoSecond(n) /\ NoSecond(e) /\ Paired(s)
  BY OtherMessages, PairedIs
<1>2. Len(n) = 2 /\ Len(e) = 2 /\ Len(s) = 2
  <2>1. Len(<<Zeros, Zeros>>) = 2
    OBVIOUS
  <2> QED
    BY <2>1, UnitsAre
<1>3. Paired(n) /\ Paired(e)
  BY <1>1, PairedIs
<1> QED
  BY <1>1, <1>2, <1>3 DEF Filled

(* The quoting enclave makes the quote.                                    *)
LEMMA QuoteSigns ==
  ASSUME AInv, QInv, Given, mode = "remote", sgx_make_quote("quote")
  PROVE  QInv'
<1> DEFINE me == "quote"
<1>t. Typed /\ Control /\ me \in Role /\ "target" \in Role /\ "challenger" \in Role
  BY DEF AInv, Role
<1>1. pc[me] = 8 /\ Running(me) /\ Moves(me) /\ wire' = wire
  BY <1>t, SignStep
<1>2. PICK n, e, s :
        /\ Signs(me, n, e, s)
        /\ \/ n = Units(Message("N", None)) /\ e = Units(Message("E", None)) /\ s = Units(QuoteOf)
           \/ /\ n = Units(Message("N", None)) /\ e = Units(Message("E", None))
              /\ s = Units(ReportOf(Initiator))
           \/ n = <<Zeros, Zeros>> /\ e = <<Zeros, Zeros>> /\ s = Units(ReportOf(Initiator))
  BY <1>t, SignStep
<1>3. PICK cw, cq, tw, t, q : /\ cw = wire'["c"]["challenger"] /\ cq = mem'["challenger"]["quote"]
                              /\ tw = wire'["q"]["target"]
                              /\ t = mem'["target"] /\ q = mem'["quote"]
  OBVIOUS
<1>4. t = mem["target"] /\ cq = mem["challenger"]["quote"]
  BY <1>t, <1>2, <1>3 DEF Signs
<1>5. Filled(q)
  <2>1. q["N"] = n /\ q["E"] = e /\ q["quote"] = s
    BY <1>2, <1>3 DEF Signs
  <2> QED
    BY <1>2, <2>1, SignedIsFilled
<1>6. SentOnQ' = SentOnQ
  <2>1. pc[me] \notin {5, 9, 10}
    BY <1>1
  <2> QED
    BY <1>t, <1>1, <2>1, QuotePlaces
<1>7. /\ ReadsLeft' = ReadsLeft /\ pc'["target"] = pc["target"]
      /\ pc'["challenger"] = pc["challenger"] /\ result'["challenger"] = result["challenger"]
  BY <1>t, <1>1, OthersPlaces
<1>8. ToTarget(wire["q"]["target"], ReadsLeft, SentOnQ)'
  <2>1. ToTarget(tw, ReadsLeft', SentOnQ')
    BY <1>1, <1>3, <1>6, <1>7 DEF QInv
  <2> QED
    BY <1>3, <2>1, NextToTarget
<1>9. Buffers(mem["target"], mem["quote"], pc["quote"] > 8)'
  <2>1. Buffers(t, q, pc'["quote"] > 8)
    BY <1>4, <1>5 DEF QInv, Buffers
  <2> QED
    BY <1>3, <2>1, NextBuffers
<1>10. ToChallenger(wire["c"]["challenger"], mem["challenger"]["quote"],
                    pc["challenger"] > 3, pc["target"] > 7, result["challenger"] = "ok")'
  <2>1. ToChallenger(cw, cq, pc'["challenger"] > 3, pc'["target"] > 7, result'["challenger"] = "ok")
    BY <1>1, <1>3, <1>4, <1>7 DEF QInv
  <2> QED
    BY <1>3, <2>1, NextToChallenger
<1> QED
  BY <1>8, <1>9, <1>10 DEF QInv, Given

(* Steps of the quoting enclave.                                           *)
LEMMA QuoteQInv ==
  ASSUME AInv, QInv, Given, mode = "remote", Step("quote")
  PROVE  QInv'
<1> DEFINE me == "quote"
<1>t. /\ Typed /\ Control /\ me \in Role /\ "target" \in Role /\ "challenger" \in Role
      /\ "c" \in Conn /\ "q" \in Conn /\ {"N", "E", "quote"} \subseteq Slot
  BY DEF AInv, Role, Conn, Slot
<1>p. ASSUME Running(me)
      PROVE  /\ RemoteQuoteAt(pc[me], Program(me)[pc[me]]) /\ pc[me] \in 1 .. 11
             /\ Len(Program(me)) = 11
  <2>1. pc[me] \in 1 .. Len(Program(me))
    BY <1>t, <1>p, InProgram
  <2> QED
    BY <2>1, RemoteQuoteSteps
<1>1. CASE Listen(me) \/ Accept(me) \/ sgx_connect_server(me) \/ Good(me) \/ CheckQuote(me)
  <2>1. /\ Running(me) /\ Program(me)[pc[me]].op \in {"listen", "accept", "connect", "good", "check"}
        /\ wire' = wire /\ mem' = mem /\ Moves(me)
    BY <1>t, <1>1, PlainMoves
  <2>2. pc[me] \notin {5, 8, 9, 10}
    BY <1>p, <2>1 DEF RemoteQuoteAt
  <2> QED
    BY <2>1, <2>2, QuoteQuiet
<1>2. CASE Verify(me)
  <2>0. PICK o : o = Other(me)
    OBVIOUS
  <2>1. Running(me) /\ wire' = wire /\ mem' = mem /\ Moves(me)
    BY <1>t, <1>2, <2>0, VerifyOutcome
  <2>2. Program(me)[pc[me]].op = "verify"
    BY <1>2 DEF Verify, AtOp
  <2>3. pc[me] \notin {5, 8, 9, 10}
    BY <1>p, <2>1, <2>2 DEF RemoteQuoteAt
  <2> QED
    BY <2>1, <2>3, QuoteQuiet
<1>3. ASSUME Running(me), NEW u \in Seq(Unit), sgx_write_sock(me, u), mem' = mem, Len(u) = 2,
             Paired(u), pc[me] # 11 => NoSecond(u), pc[me] \in {5, 9, 10, 11}
      PROVE  QInv'
  <2>1. ConnOf(me) = "q" /\ Peer(me, "q") = "target" /\ Arg(me) # "Good"
    BY <1>3, <1>p DEF RemoteQuoteAt, ConnOf, Peer, Arg
  <2>2. Written(me, "q", "target", u)
    BY <1>t, <1>3, <2>1, WriteMoves
  <2> QED
    BY <1>3, <2>2, QuoteSends
<1>4. CASE sgx_report(me)
  <2>1. Running(me) /\ me \in Sides /\ sgx_write_sock(me, Units(ReportOf(me))) /\ mem' = mem
    BY <1>t, <1>4, ReportMade
  <2>2. Program(me)[pc[me]].op = "report"
    BY <1>4 DEF sgx_report, AtOp
  <2>3. pc[me] = 5
    BY <1>p, <2>1, <2>2 DEF RemoteQuoteAt
  <2>4. PICK u : u = Units(ReportOf(me))
    OBVIOUS
  <2>5. u \in Seq(Unit) /\ Len(u) = 2
    BY <2>1, <2>4, MessagesAre, UnitsAre DEF Sides
  <2>6. NoSecond(u) /\ Paired(u)
    BY <2>4, OtherMessages, PairedIs
  <2>7. pc[me] \in {5, 9, 10, 11}
    BY <2>3
  <2> QED
    BY <1>3, <2>1, <2>4, <2>5, <2>6, <2>7
<1>5. CASE Send(me)
  <2>1. AtOp(me, "send") /\ Running(me)
    BY <1>5 DEF Send, AtOp
  <2>2. /\ pc[me] \in {9, 10, 11}
        /\ Arg(me) \in {"N", "E", "quote"} /\ (pc[me] # 11 => Arg(me) \in {"N", "E"})
    BY <1>p, <2>1 DEF RemoteQuoteAt, AtOp, Arg
  <2>3. PICK u : u = mem[me][Arg(me)]
    OBVIOUS
  <2>4. Filled(mem[me])
    <3>1. pc["quote"] > 8
      BY <2>2
    <3> QED
      BY <3>1 DEF QInv, Buffers
  <2>5. u \in Seq(Unit)
    BY <1>t, <2>2, <2>3 DEF Typed
  <2>6. Len(u) = 2 /\ Paired(u) /\ (pc[me] # 11 => NoSecond(u))
    BY <2>2, <2>3, <2>4 DEF Filled
  <2>7. sgx_write_sock(me, u) /\ mem' = mem
    <3>1. ~(Len(u) = 1)
      BY <2>6
    <3> QED
      BY <1>5, <2>3, <3>1 DEF Send
  <2>8. pc[me] \in {5, 9, 10, 11}
    BY <2>2
  <2> QED
    BY <1>3, <2>1, <2>5, <2>6, <2>7, <2>8
<1>6. CASE sgx_read_sock(me)
  <2>1. AtOp(me, "read") /\ Running(me)
    BY <1>6 DEF sgx_read_sock, AtOp
  <2>2. pc[me] \in {3, 6} /\ ConnOf(me) = "q" /\ Arg(me) \in {"report", "msg"}
    BY <1>p, <2>1 DEF RemoteQuoteAt, AtOp, ConnOf, Arg
  <2>3. PICK b \in Slot : b = Arg(me)
    BY <1>t, <2>1, ReadStep
  <2>4. ReadFrom(me, "q", b) /\ b \notin {"N", "E", "quote"}
    BY <1>t, <1>6, <2>2, <2>3, ReadMoves
  <2>5. /\ Moves(me) /\ wire'["q"]["target"] = wire["q"]["target"]
        /\ wire'["c"]["challenger"] = wire["c"]["challenger"]
        /\ \A s \in {"N", "E", "quote"} : mem'["target"][s] = mem["target"][s]
        /\ \A s \in {"N", "E", "quote"} : mem'["quote"][s] = mem["quote"][s]
        /\ mem'["challenger"]["quote"] = mem["challenger"]["quote"]
    BY <1>t, <2>4 DEF ReadFrom
  <2>6. pc[me] \notin {5, 8, 9, 10}
    BY <2>2
  <2> QED
    BY <2>1, <2>5, <2>6, QuoteQuiet
<1>7. ~Write(me)
  <2>1. ASSUME Running(me) PROVE Program(me)[pc[me]].op # "write"
    BY <1>p, <2>1 DEF RemoteQuoteAt
  <2> QED
    BY <2>1 DEF Write, AtOp
<1>8. CASE sgx_make_quote(me)
  BY <1>8, QuoteSigns
<1> QED
  BY <1>1, <1>2, <1>4, <1>5, <1>6, <1>7, <1>8 DEF Step

-----------------------------------------------------------------------------
(* The theorem about the quote.                                            *)

(* At the start no part of the quote is anywhere.                          *)
LEMMA InitQInv == AttestInit => QInv
<1> SUFFICES ASSUME AttestInit, mode = "remote"
             PROVE  /\ ToTarget(wire["q"]["target"], ReadsLeft, SentOnQ)
                    /\ Buffers(mem["target"], mem["quote"], pc["quote"] > 8)
                    /\ ToChallenger(wire["c"]["challenger"], mem["challenger"]["quote"],
                                    pc["challenger"] > 3, pc["target"] > 7,
                                    result["challenger"] = "ok")
  BY DEF QInv
<1>1. /\ wire["q"]["target"] = << >> /\ wire["c"]["challenger"] = << >>
      /\ \A r \in Role, s \in Slot : mem[r][s] = << >>
      /\ \A r \in Role : pc[r] = 1
  BY DEF AttestInit, Conn, Role
<1>2. pc["target"] = 1 /\ pc["quote"] = 1 /\ pc["challenger"] = 1
      /\ mem["challenger"]["quote"] = << >>
      /\ \A s \in {"N", "E", "quote"} : mem["target"][s] = << >>
  BY <1>1 DEF Role, Slot
<1>3. ReadsLeft = 4 /\ SentOnQ = 0
  BY <1>2 DEF ReadsLeft, SentOnQ
<1>4. result["challenger"] = "running"
  <2>1. Program("challenger") # << >>
    BY RemoteChallengerSteps
  <2> QED
    BY <2>1 DEF AttestInit, Role
<1>5. ToTarget(wire["q"]["target"], ReadsLeft, SentOnQ)
  <2>1. Chained(<< >>) /\ FarOff(<< >>, 4) /\ Len(<< >>) >= 2 * (0 + 4 - 4)
    BY DEF Chained, FarOff
  <2> QED
    BY <1>1, <1>3, <2>1 DEF ToTarget
<1>6. Buffers(mem["target"], mem["quote"], pc["quote"] > 8)
  <2>1. Paired(<< >>) /\ ~(pc["quote"] > 8)
    BY <1>2 DEF Paired
  <2> QED
    BY <1>2, <2>1 DEF Buffers
<1>7. ToChallenger(wire["c"]["challenger"], mem["challenger"]["quote"],
                   pc["challenger"] > 3, pc["target"] > 7, result["challenger"] = "ok")
  <2>1. Chained(<< >>) /\ ~EndsQuote(<< >>) /\ ~(pc["challenger"] > 3)
    BY <1>2 DEF Chained, EndsQuote
  <2> QED
    BY <1>1, <1>2, <1>4, <2>1 DEF ToChallenger
<1> QED
  BY <1>5, <1>6, <1>7

(* Every step keeps the quote in order.                                    *)
LEMMA NextQInv == AInv /\ QInv /\ [AttestNext]_allVars => QInv'
<1> SUFFICES ASSUME AInv, QInv, [AttestNext]_allVars PROVE QInv'
  OBVIOUS
<1>1. Given
  <2>1. CASE AttestNext
    BY <2>1, StepGiven DEF AttestNext
  <2>2. CASE UNCHANGED allVars
    BY <2>2 DEF allVars, vars, Given
  <2> QED
    BY <2>1, <2>2
<1>2. CASE mode # "remote"
  BY <1>1, <1>2 DEF QInv, Given
<1>3. CASE mode = "remote" /\ UNCHANGED allVars
  <2>1. pc' = pc /\ result' = result /\ wire' = wire /\ mem' = mem
    BY <1>3 DEF allVars, procVars, netVars
  <2>2. ReadsLeft' = ReadsLeft /\ SentOnQ' = SentOnQ
    BY <2>1 DEF ReadsLeft, SentOnQ
  <2> QED
    BY <1>1, <1>3, <2>1, <2>2, QuoteRests
<1>4. CASE mode = "remote" /\ AttestNext
  <2>1. PICK r \in {"challenger", "target", "quote"} : Step(r)
    BY <1>4 DEF AttestNext, Role
  <2>2. CASE r = "challenger"
    BY <1>1, <1>4, <2>1, <2>2, ChallengerQInv
  <2>3. CASE r = "target"
    BY <1>1, <1>4, <2>1, <2>3, TargetQInv
  <2>4. CASE r = "quote"
    BY <1>1, <1>4, <2>1, <2>4, QuoteQInv
  <2> QED
    BY <2>1, <2>2, <2>3, <2>4
<1> QED
  BY <1>2, <1>3, <1>4

(***************************************************************************)
(* What a challenger that reports success holds, for any enclaves and      *)
(* .conf file and however the messages were cut on the way: the whole of a *)
(* quote, of the report its own target made for the quoting enclave, while *)
(* sgx_remote_attest_challenger itself checks the signature only.          *)
(***************************************************************************)
THEOREM QuoteSpeaks == AttestSpec => []QuoteSpeaksForTarget
<1>1. AInv /\ QInv => QuoteSpeaksForTarget
  <2> SUFFICES ASSUME AInv, QInv, mode = "remote", result["challenger"] = "ok"
               PROVE  /\ ConfMatches /\ MiscCovered
                      /\ IsWhole(mem["challenger"]["quote"], "quote")
                      /\ mem["challenger"]["quote"][1].of.report.by = "target"
    BY DEF QuoteSpeaksForTarget
  <2>1. PICK q : q = mem["challenger"]["quote"]
    OBVIOUS
  <2>2. q \in Seq(Unit)
    BY <2>1 DEF AInv, Typed, Role, Slot
  <2>3. EndsQuote(q) /\ IsFirst(q[1])
    BY <2>1 DEF QInv, ToChallenger
  <2>4. pc["target"] > 7
    <3>1. pc["challenger"] = Len(Program("challenger"))
      BY DEF AInv, Control, Role
    <3>2. pc["challenger"] > 3
      BY <3>1, RemoteChallengerSteps
    <3> QED
      BY <3>2 DEF QInv, ToChallenger
  <2>5. ConfMatches /\ MiscCovered
    <3>1. Passed(Initiator)
      BY <2>4, RemoteSides DEF Passed
    <3> QED
      BY <3>1 DEF AInv, Verdicts, VerdictsOf
  <2>6. Len(q) = 2 /\ q[1] \in Unit /\ q[2] \in Unit
    <3>1. Len(q) = 2
      BY <2>3 DEF EndsQuote
    <3> QED
      BY <2>2, <3>1
  <2>7. q = Units(QuoteOf)
    <3>1. q = <<q[1], q[2]>>
      BY <2>2, <2>6, PairIs
    <3>2. q[1] = [of |-> q[1].of, part |-> q[1].part] /\ q[2] = [of |-> q[2].of, part |-> q[2].part]
      BY <2>6, QuoteKind
    <3>3. /\ q[1].of = QuoteOf /\ q[1].part = 1
          /\ q[2].of = QuoteOf /\ q[2].part = 2
      BY <2>3 DEF EndsQuote, IsFirst, IsSecond
    <3>4. q[1] = [of |-> QuoteOf, part |-> 1] /\ q[2] = [of |-> QuoteOf, part |-> 2]
      BY <3>2, <3>3
    <3> QED
      BY <3>1, <3>4 DEF Units
  <2>8. q[1].of = QuoteOf /\ QuoteOf.kind = "quote" /\ QuoteOf.report = MadeBy(Initiator)
    BY <2>3, <2>6, QuoteKind DEF IsFirst
  <2>9. IsWhole(q, "quote")
    BY <2>6, <2>7, <2>8 DEF IsWhole
  <2>10. q[1].of.report.by = "target"
    BY <2>8, ReportSays, RemoteSides
  <2> QED
    BY <2>1, <2>5, <2>9, <2>10
<1> QED
  BY <1>1, InitAInv, NextAInv, InitQInv, NextQInv, PTL DEF AttestSpec
=============================================================================
