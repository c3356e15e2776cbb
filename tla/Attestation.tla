---------------------------- MODULE Attestation ----------------------------
(***************************************************************************)
(* Attestation between enclaves (libsgx/sgx-attest.c, sgx-intra-attest.c,  *)
(* sgx-remote-attest.c) on top of EREPORT and EGETKEY (SgxKeys).  Every    *)
(* enclave runs in a process of its own; the processes talk over TCP.      *)
(*                                                                         *)
(*   intra:   challenger  <--c-->  target                                  *)
(*   remote:  challenger  <--c-->  target  <--q-->  quote                  *)
(*                                                                         *)
(* A message travels as two units, so that a read may return a part of it; *)
(* what is not the whole of a report, a key or an answer is taken to fail  *)
(* its check.  A process that ends closes its connections.                 *)
(***************************************************************************)
EXTENDS SgxKeys, Sequences

CONSTANTS
  Modes, \* a subset of {"intra", "remote"}
  Confs  \* what a .conf file may say of an enclave: the fields of its SIGSTRUCT

Role == {"challenger", "target", "quote"}
Conn == {"c", "q"}
Slot == {"msg", "report", "N", "E", "quote"}

ASSUME ModesAssumption == Modes \subseteq {"intra", "remote"}
ASSUME RolesAssumption == Enclaves = Role

VARIABLES
  mode,
  conf,    \* the SIGSTRUCT the side that connects loads
  pc,      \* the step of its program each process is at
  result,  \* "running", "ok" (returned 1), "failed" (returned -1), "killed"
  link,    \* every connection: "none", "listening", "connected"
  wire,    \* wire[c][r]: the units on connection c that r has not read yet
  mem      \* mem[r][s]: the units r has read into buffer s

procVars == <<pc, result>>
netVars  == <<link, wire>>
allVars  == <<vars, mode, conf, procVars, netVars, mem>>

-----------------------------------------------------------------------------
(* Messages.                                                               *)
Message(kind, rep) == [kind |-> kind, report |-> rep]
Units(m) == <<[of |-> m, part |-> 1], [of |-> m, part |-> 2]>>
Zeros == [of |-> Message("zeros", None), part |-> 0] \* what memset left

IsWhole(s, kind) == Len(s) = 2 /\ s = Units(s[1].of) /\ s[1].of.kind = kind

-----------------------------------------------------------------------------
(* The programs.  A step names an operation, its connection, and a buffer  *)
(* or what is sent.                                                        *)
Op(op, c, x) == [op |-> op, conn |-> c, arg |-> x]

IntraChallenger ==
  <<Op("connect", "c", ""), Op("report", "c", "conf"), Op("read", "c", "report"),
    Op("verify", "c", "")>>

IntraTarget ==
  <<Op("listen", "c", ""), Op("accept", "c", ""), Op("read", "c", "report"),
    Op("verify", "c", ""), Op("report", "c", "sender")>>

RemoteChallenger ==
  <<Op("connect", "c", ""), Op("write", "c", "challenge"), Op("read", "c", "N"),
    Op("read", "c", "E"), Op("read", "c", "quote"), Op("check", "c", "")>>

RemoteTarget ==
  <<Op("listen", "c", ""), Op("accept", "c", ""), Op("read", "c", "msg"),
    Op("connect", "q", ""), Op("report", "q", "conf"), Op("read", "q", "report"),
    Op("verify", "q", ""), Op("write", "q", "Good"), Op("read", "q", "N"),
    Op("read", "q", "E"), Op("read", "q", "quote"), Op("send", "c", "N"),
    Op("send", "c", "E"), Op("send", "c", "quote")>>

\* Mutant: the verdict of the target is awaited before it has a report.
RemoteQuote_NoReply ==
  <<Op("listen", "q", ""), Op("accept", "q", ""), Op("read", "q", "report"),
    Op("verify", "q", ""), Op("read", "q", "msg"), Op("good", "q", ""),
    Op("report", "q", "sender"), Op("sign", "q", ""), Op("send", "q", "N"),
    Op("send", "q", "E"), Op("send", "q", "quote")>>

\* Mutant: the target's report is quoted without its MAC being checked.
RemoteQuote_Unverified ==
  <<Op("listen", "q", ""), Op("accept", "q", ""), Op("read", "q", "report"),
    Op("report", "q", "sender"), Op("read", "q", "msg"), Op("good", "q", ""),
    Op("sign", "q", ""), Op("send", "q", "N"), Op("send", "q", "E"),
    Op("send", "q", "quote")>>

RemoteQuote ==
  <<Op("listen", "q", ""), Op("accept", "q", ""), Op("read", "q", "report"),
    Op("verify", "q", ""), Op("report", "q", "sender"), Op("read", "q", "msg"),
    Op("good", "q", ""), Op("sign", "q", ""), Op("send", "q", "N"),
    Op("send", "q", "E"), Op("send", "q", "quote")>>

Program(r) ==
  CASE mode = "intra" /\ r = "challenger" -> IntraChallenger
    [] mode = "intra" /\ r = "target" -> IntraTarget
    [] mode = "intra" /\ r = "quote" -> <<>>
    [] mode = "remote" /\ r = "challenger" -> RemoteChallenger
    [] mode = "remote" /\ r = "target" -> RemoteTarget
    [] mode = "remote" /\ r = "quote" -> RemoteQuote

Peer(r, c) ==
  IF r # "target" THEN "target" ELSE IF c = "c" THEN "challenger" ELSE "quote"

(* Every enclave is one the kernel has handed out: EINIT has accepted it,  *)
(* once, and nothing measures it any more.                                 *)
AttestInit ==
  /\ mode \in Modes /\ conf \in Confs
  /\ secs \in [Enclaves -> {[mrEnclave |-> b.mrEnclave, attributes |-> b.attributes,
                             miscselect |-> b.miscselect, mrSigner |-> sig.modulus,
                             isvprodID |-> sig.isvProdID, isvsvn |-> sig.isvSvn] :
                               b \in Builds, sig \in Sigs}]
  /\ launched = Enclaves /\ key = [e \in Enclaves |-> None] /\ report = None
  /\ pc = [r \in Role |-> 1]
  /\ result = [r \in Role |-> IF Program(r) = <<>> THEN "ok" ELSE "running"]
  /\ link = [c \in Conn |-> "none"]
  /\ wire = [c \in Conn |-> [r \in Role |-> <<>>]]
  /\ mem = [r \in Role |-> [s \in Slot |-> <<>>]]

-----------------------------------------------------------------------------
(* Control.                                                                *)
Running(r) == result[r] = "running"
AtOp(r, op) == Running(r) /\ Program(r)[pc[r]].op = op
Arg(r) == Program(r)[pc[r]].arg
ConnOf(r) == Program(r)[pc[r]].conn

Proceed(r) ==
  IF pc[r] = Len(Program(r))
  THEN result' = [result EXCEPT ![r] = "ok"] /\ pc' = pc
  ELSE pc' = [pc EXCEPT ![r] = @ + 1] /\ UNCHANGED result

End(r, how) == result' = [result EXCEPT ![r] = how] /\ pc' = pc

-----------------------------------------------------------------------------
(* Sockets.                                                                *)

(* The other side has closed the connection without having read all that  *)
(* was sent to it: TCP resets the connection.                              *)
Closed(r, c) == ~Running(Peer(r, c))
Reset(r, c)  == Closed(r, c) /\ wire[c][Peer(r, c)] # <<>>

(* sgx_make_server: socket to listen, then accept.                         *)
Listen(r) ==
  /\ AtOp(r, "listen")
  /\ \/ link' = [link EXCEPT ![ConnOf(r)] = "listening"] /\ Proceed(r)
     \/ End(r, "failed") /\ UNCHANGED link
  /\ UNCHANGED <<vars, wire, mem>>

Accept(r) ==
  /\ AtOp(r, "accept")
  /\ link[ConnOf(r)] = "connected"
  /\ Proceed(r) \/ End(r, "failed")
  /\ UNCHANGED <<vars, netVars, mem>>

sgx_connect_server(r) ==
  LET c == ConnOf(r)
  IN  /\ AtOp(r, "connect")
      /\ IF link[c] = "listening"
         THEN link' = [link EXCEPT ![c] = "connected"] /\ Proceed(r)
         ELSE End(r, "failed") /\ UNCHANGED link
      /\ UNCHANGED <<vars, wire, mem>>

(* A write returned -1.  After "Good" the target only says so and goes on. *)
WriteFails(r) == IF Arg(r) = "Good" THEN Proceed(r) ELSE End(r, "failed")

(* A write to a connection that has been reset, if the reset has arrived,  *)
(* fails or raises SIGPIPE.                                                *)
sgx_write_sock(r, units) ==
  LET c == ConnOf(r)
  IN  \/ /\ wire' = [wire EXCEPT ![c][Peer(r, c)] = @ \o units]
         /\ Proceed(r)
      \/ /\ Reset(r, c)
         /\ WriteFails(r) \/ End(r, "killed")
         /\ UNCHANGED wire

Write(r) ==
  /\ AtOp(r, "write")
  /\ sgx_write_sock(r, Units(Message(Arg(r), None)))
  /\ UNCHANGED <<vars, link, mem>>

(* A buffer is sent in full, with the zeros a short read left in it.       *)
Send(r) ==
  LET got == mem[r][Arg(r)]
  IN  /\ AtOp(r, "send")
      /\ sgx_write_sock(r, IF Len(got) = 1 THEN Append(got, Zeros) ELSE got)
      /\ UNCHANGED <<vars, link, mem>>

(* One read returns what is there, up to the size asked for; an error ends *)
(* the exchange; at the end of the stream read returns 0 and is called     *)
(* again, for ever.                                                        *)
sgx_read_sock(r) ==
  LET c == ConnOf(r)
  IN  /\ AtOp(r, "read")
      /\ \/ \E n \in 1 .. 2 :
              /\ n <= Len(wire[c][r])
              /\ mem' = [mem EXCEPT ![r][Arg(r)] = SubSeq(wire[c][r], 1, n)]
              /\ wire' = [wire EXCEPT ![c][r] = SubSeq(@, n + 1, Len(@))]
              /\ Proceed(r)
         \/ /\ Reset(r, c)
            /\ End(r, "failed")
            /\ UNCHANGED <<wire, mem>>
      /\ UNCHANGED <<vars, link>>

-----------------------------------------------------------------------------
(* Reports.                                                                *)

(* The report is made for the enclave the .conf file describes, or for the *)
(* one whose report has just been verified.                                *)
TargetInfoOf(r) ==
  IF Arg(r) = "conf"
  THEN [measurement |-> conf.enclaveHash, attributes |-> conf.attributes,
        miscselect |-> conf.miscselect]
  ELSE LET s == secs[mem[r]["report"][1].of.report.by]
       IN  [measurement |-> s.mrEnclave, attributes |-> s.attributes,
            miscselect |-> s.miscselect]

sgx_report(r) ==
  /\ AtOp(r, "report")
  /\ EREPORT(r, TargetInfoOf(r))
  /\ sgx_write_sock(r, Units(Message("report", report')))
  /\ UNCHANGED <<link, mem>>

\* Mutant: the mask is the MISCSELECT of the enclave that verifies.
KeyRequest_OwnMask(r, s, keyid) ==
  [keyname |-> "REPORT", policy |-> {}, isvsvn |-> 0, cpusvn |-> 0,
   attributeMask |-> {}, keyid |-> keyid, miscmask |-> secs[r].miscselect]

(* The key request, of which name, the first half of the keyid and the     *)
(* mask are set: the mask is the MISCSELECT of the sender.  Whatever else  *)
(* the report key depends on comes from the other half of the keyid.       *)
KeyRequest(r, s, keyid) ==
  [keyname |-> "REPORT", policy |-> {}, isvsvn |-> 0, cpusvn |-> 0,
   attributeMask |-> {}, keyid |-> keyid, miscmask |-> secs[s].miscselect]

sgx_match_mac(dep, m) == dep = m.report.macKey

(* The half of the keyid that is not set may be zero, as in the report, or *)
(* not; a reserved field that is not zero makes EGETKEY fault.             *)
Verify(r) ==
  LET got == mem[r]["report"]
      m   == got[1].of
  IN  /\ AtOp(r, "verify")
      /\ \/ \E keyid \in {Zero, "stack"} :
              /\ EGETKEY(r, KeyRequest(r, IF IsWhole(got, "report") THEN m.report.by ELSE r,
                                       keyid))
              /\ IF IsWhole(got, "report") /\ sgx_match_mac(key'[r].dep, m)
                 THEN Proceed(r) ELSE End(r, "failed")
         \/ End(r, "killed") /\ UNCHANGED vars
      /\ UNCHANGED <<netVars, mem>>

Good(r) ==
  /\ AtOp(r, "good")
  /\ IF IsWhole(mem[r]["msg"], "Good") THEN Proceed(r) ELSE End(r, "failed")
  /\ UNCHANGED <<vars, netVars, mem>>

(* A failure leaves the key buffers as malloc returned them, or the report *)
(* without a signature; the caller does not look at the result.            *)
sgx_make_quote(r) ==
  LET rep    == mem[r]["report"]
      N      == Units(Message("N", None))
      E      == Units(Message("E", None))
      signed == Units(Message("quote", rep[1].of.report))
      junk   == <<Zeros, Zeros>>
  IN  /\ AtOp(r, "sign")
      /\ \E out \in {<<N, E, signed>>, <<N, E, rep>>, <<junk, junk, rep>>} :
           mem' = [mem EXCEPT ![r]["N"] = out[1], ![r]["E"] = out[2], ![r]["quote"] = out[3]]
      /\ Proceed(r)
      /\ UNCHANGED <<vars, netVars>>

(* rsa_pkcs1_verify is given a hash of length 0: the signature has to be   *)
(* one made with the key, the quote's body does not matter.  The RSA       *)
(* context is not initialised, so a good signature may be refused and the  *)
(* process may crash.                                                      *)
CheckQuote(r) ==
  LET signed == /\ IsWhole(mem[r]["N"], "N") /\ IsWhole(mem[r]["E"], "E")
                /\ Len(mem[r]["quote"]) = 2
                /\ mem[r]["quote"][2].of.kind = "quote" /\ mem[r]["quote"][2].part = 2
  IN  /\ AtOp(r, "check")
      /\ \/ signed /\ Proceed(r)
         \/ End(r, "failed")
         \/ End(r, "killed")
      /\ UNCHANGED <<vars, netVars, mem>>

Step(r) ==
  /\ \/ Listen(r) \/ Accept(r) \/ sgx_connect_server(r)
     \/ Write(r) \/ Send(r) \/ sgx_read_sock(r)
     \/ sgx_report(r) \/ Verify(r) \/ Good(r) \/ sgx_make_quote(r) \/ CheckQuote(r)
  /\ UNCHANGED <<mode, conf>>

AttestNext == \E r \in Role : Step(r)

(* Each process is scheduled by its kernel and takes whatever step it can. *)
AttestSpec == AttestInit /\ [][AttestNext]_allVars /\ \A r \in Role : WF_allVars(Step(r))

-----------------------------------------------------------------------------
(* The two sides of the exchange of reports.                               *)
Initiator == IF mode = "intra" THEN "challenger" ELSE "target"
Responder == IF mode = "intra" THEN "target" ELSE "quote"

Verified(r) ==
  \E i \in 1 .. pc[r] : Program(r)[i].op = "verify" /\ (i < pc[r] \/ result[r] = "ok")
(* The check failed, though a whole report came and the request was clean. *)
Refused(r) ==
  /\ result[r] = "failed" /\ Program(r)[pc[r]].op = "verify"
  /\ IsWhole(mem[r]["report"], "report") /\ key[r].req.keyid = Zero

(***************************************************************************)
(* Who accepts whom.  The side that answers accepts exactly when the .conf *)
(* file describes it, its MISCSELECT as far as both sides have it set.     *)
(* The side that asked accepts only after the other did, and then exactly  *)
(* when the answering side has every MISCSELECT bit it has itself, since   *)
(* the sender's MISCSELECT is the mask.                                    *)
(***************************************************************************)
ConfMatches ==
  LET s == secs[Responder]
  IN  /\ conf.enclaveHash = s.mrEnclave /\ conf.attributes = s.attributes
      /\ conf.miscselect = s.miscselect \cap secs[Initiator].miscselect
MiscCovered == secs[Initiator].miscselect \subseteq secs[Responder].miscselect

VerdictsExact ==
  /\ Verified(Responder) => ConfMatches
  /\ Refused(Responder) => ~ConfMatches
  /\ Verified(Initiator) => Verified(Responder) /\ MiscCovered
  /\ Refused(Initiator) => Verified(Responder) /\ ~MiscCovered

(***************************************************************************)
(* A challenger that reports success holds, whole, the report its target   *)
(* made for the quoting enclave the .conf file describes.  Its own check   *)
(* covers the signature only, and the target's only that somebody answered *)
(* its report: it is the quoting enclave that refuses a report made for    *)
(* another enclave.                                                        *)
(***************************************************************************)
QuoteSpeaksForTarget ==
  mode = "remote" /\ result["challenger"] = "ok" =>
    /\ ConfMatches /\ MiscCovered
    /\ IsWhole(mem["challenger"]["quote"], "quote")
    /\ mem["challenger"]["quote"][1].of.report.by = "target"

(***************************************************************************)
(* Whatever reads come short and whoever gives up, the processes never     *)
(* wait for each other: in the end no two of them are left each at a read  *)
(* or an accept that only the other could end.  Whoever still waits does   *)
(* so, directly or behind another, for a process that is gone.             *)
(***************************************************************************)
WaitsFor(r) == Peer(r, ConnOf(r))

NoCircularWait ==
  <>[](\A r, s \in Role :
         Running(r) /\ Running(s) => ~(WaitsFor(r) = s /\ WaitsFor(s) = r))

(***************************************************************************)
(* A function that waits for a message comes to an end, and the enclave    *)
(* can say "Intra Attestation Fail!": no process reads for ever from a     *)
(* peer that has gone.                                                     *)
(***************************************************************************)
FailureIsReported ==
  \A r \in Role : AtOp(r, "read") /\ ~Running(Peer(r, ConnOf(r))) ~> ~AtOp(r, "read")
=============================================================================
