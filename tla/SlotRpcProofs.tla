---------------------------- MODULE SlotRpcProofs ----------------------------
(***************************************************************************)
(* Proofs about SlotRpc: RpcSound for any number of slaves, requests, lost *)
(* frames and mode switches, any table and any queue lengths.              *)
(*                                                                         *)
(* RpcSound says where a request was executed and what the host got; the   *)
(* inductive invariant adds where the request is meanwhile.  Two witnesses *)
(* that no code keeps make it a statement about each place by itself: at   *)
(* gives the one place that holds a request not executed yet, and num the  *)
(* wire id it was given (0 before it has one).                             *)
(***************************************************************************)
EXTENDS SlotRpc, SequenceTheorems, TLAPS

(* The host's numbers and those of g_orig_seq do not meet: the host counts *)
(* from a base of its own, g_orig_seq counts its requests from 1.  Without *)
(* it two requests may carry one wire id, and corr_take cannot tell whose  *)
(* reply it has.                                                           *)
Apart == MaxReqs <= HostBase

Places == {"cmd", "job", "eng", "orig", "out", "send", "gone"}
Request == [to : Slaves, kind : Kinds]
Requests == {rq \in Seq(Request) : Len(rq) <= MaxReqs}
AtFun == [1..MaxReqs -> Places]
NumFun == [1..MaxReqs -> Nat]

-----------------------------------------------------------------------------
(* What the places hold, as predicates of the requests rq asked so far.    *)

(* A command as on_bus_msg and kbapp_on_echo_to stage it.                  *)
Staged(rq, c) ==
    /\ c \in Command /\ c.of \in 1..Len(rq) /\ c.to = rq[c.of].to
    /\ c.orig = (rq[c.of].kind = "orig") /\ c.host = HostId(c.of)
    /\ (~c.orig => c.id = c.host)
StagedCmds(rq) == {c \in Command : Staged(rq, c)}

(* It is in place p and carries its number.                                *)
Placed(rq, at, num, c, p) ==
    Staged(rq, c) /\ at[c.of] = p /\ c.id = num[c.of] /\ c.id # 0
Distinct(s) == \A i, j \in 1..Len(s) : s[i].of = s[j].of => i = j
ListOK(rq, at, num, s, p) ==
    /\ s \in Seq(StagedCmds(rq)) /\ Distinct(s)
    /\ \A i \in 1..Len(s) : Placed(rq, at, num, s[i], p)

(* g_orig_q: requests that have no number yet.                             *)
Waiting(rq, at, num, c) == Staged(rq, c) /\ c.orig /\ at[c.of] = "orig" /\ num[c.of] = 0
QueueOK(rq, at, num, s) ==
    /\ s \in Seq(StagedCmds(rq)) /\ Distinct(s)
    /\ \A i \in 1..Len(s) : Waiting(rq, at, num, s[i])

(* The replies of slave a that are on their way, and frames of a window.   *)
Replies(rq, rn, num, a) ==
    {r \in Reply : /\ r.of \in 1..Len(rq) /\ rn[r.of] = 1 /\ rq[r.of].to = a
                   /\ r.id = num[r.of] /\ r.id # 0}
Frames(rq, rn, num) ==
    {f \in [from : Slaves, r : Reply] : f.r \in Replies(rq, rn, num, f.from)}

(* A wire id stands for one request.                                       *)
NumOK(rq, seq, num) ==
    /\ \A n \in 1..Len(rq) : IF rq[n].kind = "orig" THEN num[n] \in 0..seq
                             ELSE num[n] = HostId(n)
    /\ \A n, m \in 1..Len(rq) : num[n] = num[m] /\ num[n] # 0 => n = m

(* The correlation table: at most one entry of a request, and none of one  *)
(* that is still to be correlated.                                         *)
Entry == [id : Nat, addr : Nat, orig : BOOLEAN, host : Nat]
EntryOf(rq, num, n) == [id |-> num[n], addr |-> rq[n].to, orig |-> (rq[n].kind = "orig"),
                        host |-> HostId(n)]
IsEntry(rq, at, num, e) ==
    \E n \in 1..Len(rq) : /\ e = EntryOf(rq, num, n) /\ num[n] # 0
                          /\ at[n] \notin {"cmd", "orig"}
CorrOK(rq, at, num, tbl) ==
    /\ tbl \in [1..CMDCORR_MAX -> Entry]
    /\ \A i \in 1..CMDCORR_MAX : tbl[i] # Free => IsEntry(rq, at, num, tbl[i])
    /\ \A i, j \in 1..CMDCORR_MAX :
         tbl[i] # Free /\ tbl[j] # Free /\ tbl[i].host = tbl[j].host => i = j

(* What the host got: replies handle_slot_frame relayed are of executed    *)
(* requests.                                                               *)
Relayed == {"corr", "feedback", "sweep"}
ToldOK(rq, rn, tl) ==
    \A t \in tl : /\ t.of \in 1..Len(rq) /\ t.from \in Slaves \cup {App}
                  /\ (t.via \in Relayed => rn[t.of] = 1)

-----------------------------------------------------------------------------
(* The parts of the invariant.                                             *)
Live == pending /\ st \notin {"inject", "ack"}    \* the staged command is still to be sent

ReqsPart(at) ==
    /\ reqs \in Requests /\ ran \in Seq(Nat) /\ Len(ran) = Len(reqs)
    /\ \A n \in 1..Len(reqs) : ran[n] = 0 \/ (ran[n] = 1 /\ at[n] = "gone")
CtlPart ==
    /\ st \in {"top", "copy", "inject", "ack", "collect", "sweep"}
    /\ cyc \in {"idle", "send", "poll", "end"} /\ cursor \in Slaves
CmdPart(at, num) ==
    /\ pending \in BOOLEAN /\ (cmd = NoCmd \/ Staged(reqs, cmd)) /\ (pending => cmd # NoCmd)
    /\ (Live => Placed(reqs, at, num, cmd, "cmd"))
    /\ (pending /\ st \in {"top", "collect", "sweep"} => ~cmd.orig)
JobPart(at, num) ==
    /\ job \in [c : Command \cup {NoCmd}, tries : 0..CollectTries, heard : BOOLEAN]
    /\ (st \in {"inject", "ack", "collect"} => Staged(reqs, job.c))
    /\ (st = "collect" => job.tries # 0)
    /\ (st = "inject" => Placed(reqs, at, num, job.c, "job"))
EngPart(at, num) == eng = NoCmd \/ Placed(reqs, at, num, eng, "eng")
OrigPart(at, num) ==
    /\ QueueOK(reqs, at, num, origQ) /\ Len(origQ) <= OrigLen
    /\ origSeq \in Nat /\ origSeq + Len(origQ) <= Len(reqs)
    /\ NumOK(reqs, origSeq, num)
ListPart(at, num) ==
    ListOK(reqs, at, num, outbox, "out") /\ ListOK(reqs, at, num, sending, "send")
NodePart(num) ==
    /\ appq \in [Slaves -> Seq(Reply)] /\ txq \in [Slaves -> Seq(Reply)]
    /\ \A a \in Slaves : /\ appq[a] \in Seq(Replies(reqs, ran, num, a))
                         /\ txq[a] \in Seq(Replies(reqs, ran, num, a))
                         /\ Len(txq[a]) <= NODE_TXQ_LEN
    /\ rx \in Seq(Frames(reqs, ran, num))
CorrPart(at, num) == CorrOK(reqs, at, num, corr) /\ EntryOutstanding
ToldPart == ToldOK(reqs, ran, told) /\ RelayMatches

Inv(at, num) ==
    /\ ReqsPart(at) /\ CtlPart /\ CmdPart(at, num) /\ JobPart(at, num) /\ EngPart(at, num)
    /\ OrigPart(at, num) /\ ListPart(at, num) /\ NodePart(num) /\ CorrPart(at, num) /\ ToldPart

(* The inductive invariant.                                                *)
IInv == \E at \in AtFun, num \in NumFun : Inv(at, num)

-----------------------------------------------------------------------------
(* How the places follow when requests are added and a request moves.      *)
Extends(rq, rq2) == Len(rq) <= Len(rq2) /\ \A n \in 1..Len(rq) : rq2[n] = rq[n]
Keeps(rq, at, num, at2, num2, p) ==
    \A n \in 1..Len(rq) : at[n] = p => at2[n] = p /\ num2[n] = num[n]
RanKeeps(rq, rn, rn2) == \A n \in 1..Len(rq) : rn[n] = 1 => rn2[n] = 1
NumKeeps(rq, num, num2) == \A n \in 1..Len(rq) : num[n] # 0 => num2[n] = num[n]

LEMMA Consts ==
    /\ HostBase \in Nat /\ NSlaves \in Nat \ {0} /\ CMDCORR_MAX \in Nat \ {0}
    /\ OrigLen \in Nat \ {0} /\ NODE_TXQ_LEN \in Nat \ {0} /\ CollectTries \in Nat \ {0}
    /\ MaxReqs \in Nat
    /\ App \notin Slaves /\ 1 \in Slaves /\ Slaves \subseteq Nat
    /\ NoCmd \notin Command
    /\ \A n \in Nat : HostId(n) \in Nat
  <1>1. /\ HostBase \in Nat /\ NSlaves \in Nat \ {0} /\ CMDCORR_MAX \in Nat \ {0}
        /\ OrigLen \in Nat \ {0} /\ NODE_TXQ_LEN \in Nat \ {0} /\ CollectTries \in Nat \ {0}
        /\ MaxReqs \in Nat
    BY SlotRpcAssumption
  <1>2. App \notin Slaves /\ 1 \in Slaves /\ Slaves \subseteq Nat
    BY <1>1 DEF App, Slaves
  <1>3. NoCmd \notin Command
    BY <1>2 DEF NoCmd, Command
  <1>4. \A n \in Nat : HostId(n) \in Nat
    BY <1>1 DEF HostId
  <1> QED BY <1>1, <1>2, <1>3, <1>4

LEMMA RequestsProps ==
    ASSUME NEW rq \in Requests
    PROVE  /\ Len(rq) \in 0..MaxReqs /\ rq \in Seq(Request)
           /\ \A n \in 1..Len(rq) : rq[n].to \in Slaves /\ rq[n].kind \in Kinds
  <1>1. rq \in Seq(Request) /\ Len(rq) <= MaxReqs
    BY DEF Requests
  <1>2. Len(rq) \in Nat /\ \A n \in 1..Len(rq) : rq[n] \in Request
    BY <1>1
  <1>3. \A n \in 1..Len(rq) : rq[n].to \in Slaves /\ rq[n].kind \in Kinds
    BY <1>2 DEF Request
  <1>4. Len(rq) \in 0..MaxReqs
    BY <1>1, <1>2, Consts
  <1> QED BY <1>1, <1>3, <1>4

LEMMA StagedKeeps ==
    ASSUME NEW rq \in Requests, NEW rq2 \in Requests, Extends(rq, rq2), NEW c, Staged(rq, c)
    PROVE  Staged(rq2, c)
  <1>1. Len(rq) \in Nat /\ Len(rq2) \in Nat
    BY RequestsProps
  <1> QED BY <1>1 DEF Staged, Extends

LEMMA StagedSetKeeps ==
    ASSUME NEW rq \in Requests, NEW rq2 \in Requests, Extends(rq, rq2)
    PROVE  StagedCmds(rq) \subseteq StagedCmds(rq2)
  BY StagedKeeps DEF StagedCmds

LEMMA PlacedKeeps ==
    ASSUME NEW rq \in Requests, NEW rq2 \in Requests, Extends(rq, rq2),
           NEW at, NEW num, NEW at2, NEW num2, NEW p, Keeps(rq, at, num, at2, num2, p),
           NEW c, Placed(rq, at, num, c, p)
    PROVE  Placed(rq2, at2, num2, c, p)
  <1>1. Staged(rq2, c)
    BY StagedKeeps DEF Placed
  <1>2. c.of \in 1..Len(rq) /\ at[c.of] = p
    BY DEF Placed, Staged
  <1>3. at2[c.of] = p /\ num2[c.of] = num[c.of]
    BY <1>2 DEF Keeps
  <1> QED BY <1>1, <1>3 DEF Placed

LEMMA ListKeeps ==
    ASSUME NEW rq \in Requests, NEW rq2 \in Requests, Extends(rq, rq2),
           NEW at, NEW num, NEW at2, NEW num2, NEW p, Keeps(rq, at, num, at2, num2, p),
           NEW s, ListOK(rq, at, num, s, p)
    PROVE  ListOK(rq2, at2, num2, s, p)
  <1>1. s \in Seq(StagedCmds(rq2))
    BY StagedSetKeeps, SeqMonotonic DEF ListOK
  <1>2. \A i \in 1..Len(s) : Placed(rq2, at2, num2, s[i], p)
    BY PlacedKeeps DEF ListOK
  <1> QED BY <1>1, <1>2 DEF ListOK

LEMMA QueueKeeps ==
    ASSUME NEW rq \in Requests, NEW rq2 \in Requests, Extends(rq, rq2),
           NEW at, NEW num, NEW at2, NEW num2, Keeps(rq, at, num, at2, num2, "orig"),
           NEW s, QueueOK(rq, at, num, s)
    PROVE  QueueOK(rq2, at2, num2, s)
  <1>1. s \in Seq(StagedCmds(rq2))
    BY StagedSetKeeps, SeqMonotonic DEF QueueOK
  <1>2. ASSUME NEW i \in 1..Len(s)
        PROVE  Waiting(rq2, at2, num2, s[i])
    <2>1. Waiting(rq, at, num, s[i])
      BY <1>2 DEF QueueOK
    <2>2. s[i].of \in 1..Len(rq)
      BY <2>1 DEF Waiting, Staged
    <2> QED BY <2>1, <2>2, StagedKeeps DEF Waiting, Keeps
  <1> QED BY <1>1, <1>2 DEF QueueOK

LEMMA RepliesKeep ==
    ASSUME NEW rq \in Requests, NEW rq2 \in Requests, Extends(rq, rq2),
           NEW rn, NEW rn2, RanKeeps(rq, rn, rn2), NEW num, NEW num2, NumKeeps(rq, num, num2)
    PROVE  /\ \A a \in Slaves : Replies(rq, rn, num, a) \subseteq Replies(rq2, rn2, num2, a)
           /\ Frames(rq, rn, num) \subseteq Frames(rq2, rn2, num2)
  <1>0. Len(rq) \in Nat /\ Len(rq2) \in Nat /\ Len(rq) <= Len(rq2)
    BY RequestsProps DEF Extends
  <1>1. ASSUME NEW a \in Slaves, NEW r \in Replies(rq, rn, num, a)
        PROVE  r \in Replies(rq2, rn2, num2, a)
    <2>1. /\ r \in Reply /\ r.of \in 1..Len(rq) /\ rn[r.of] = 1 /\ rq[r.of].to = a
          /\ r.id = num[r.of] /\ r.id # 0
      BY DEF Replies
    <2>2. r.of \in 1..Len(rq2) /\ rq2[r.of] = rq[r.of] /\ rn2[r.of] = 1 /\ num2[r.of] = num[r.of]
      BY <2>1, <1>0 DEF Extends, RanKeeps, NumKeeps
    <2> QED BY <2>1, <2>2 DEF Replies
  <1>2. Frames(rq, rn, num) \subseteq Frames(rq2, rn2, num2)
    BY <1>1 DEF Frames
  <1> QED BY <1>1, <1>2

LEMMA EntryKeeps ==
    ASSUME NEW rq \in Requests, NEW rq2 \in Requests, Extends(rq, rq2),
           NEW at, NEW at2, NEW num, NEW num2, NumKeeps(rq, num, num2),
           \A n \in 1..Len(rq) : at[n] \notin {"cmd", "orig"} => at2[n] \notin {"cmd", "orig"},
           NEW e, IsEntry(rq, at, num, e)
    PROVE  IsEntry(rq2, at2, num2, e)
  <1>1. PICK n \in 1..Len(rq) : /\ e = EntryOf(rq, num, n) /\ num[n] # 0
                                /\ at[n] \notin {"cmd", "orig"}
    BY DEF IsEntry
  <1>2. n \in 1..Len(rq2) /\ rq2[n] = rq[n] /\ num2[n] = num[n] /\ at2[n] \notin {"cmd", "orig"}
    BY <1>1, RequestsProps DEF Extends, NumKeeps
  <1>3. e = EntryOf(rq2, num2, n)
    BY <1>1, <1>2 DEF EntryOf
  <1> QED BY <1>1, <1>2, <1>3 DEF IsEntry

LEMMA CorrKeeps ==
    ASSUME NEW rq \in Requests, NEW rq2 \in Requests, Extends(rq, rq2),
           NEW at, NEW at2, NEW num, NEW num2, NumKeeps(rq, num, num2),
           \A n \in 1..Len(rq) : at[n] \notin {"cmd", "orig"} => at2[n] \notin {"cmd", "orig"},
           NEW tbl, CorrOK(rq, at, num, tbl)
    PROVE  CorrOK(rq2, at2, num2, tbl)
  BY EntryKeeps DEF CorrOK

Correlation(c) == [id |-> c.id, addr |-> c.to, orig |-> c.orig, host |-> c.host]

(* corr_add fills one free entry at most, with the command's correlation.  *)
LEMMA CorrAddProps ==
    ASSUME NEW tbl \in [1..CMDCORR_MAX -> Entry], NEW c
    PROVE  /\ CorrAdd(c, tbl) = [i \in 1..CMDCORR_MAX |-> CorrAdd(c, tbl)[i]]
           /\ \A i \in 1..CMDCORR_MAX : \/ CorrAdd(c, tbl)[i] = tbl[i]
                                        \/ tbl[i] = Free /\ CorrAdd(c, tbl)[i] = Correlation(c)
           /\ \A i, j \in 1..CMDCORR_MAX :
                CorrAdd(c, tbl)[i] # tbl[i] /\ CorrAdd(c, tbl)[j] # tbl[j] => i = j
  <1>0. DOMAIN tbl = 1..CMDCORR_MAX /\ CMDCORR_MAX \in Nat
    BY Consts
  <1> DEFINE First(i) == tbl[i] = Free /\ \A j \in 1..(i - 1) : tbl[j] # Free
  <1>1. CorrAdd(c, tbl) = [i \in 1..CMDCORR_MAX |-> IF First(i) THEN Correlation(c) ELSE tbl[i]]
    BY <1>0 DEF CorrAdd, Correlation
  <1>2. \A i \in 1..CMDCORR_MAX : CorrAdd(c, tbl)[i] = IF First(i) THEN Correlation(c) ELSE tbl[i]
    BY <1>1
  <1>3. \A i, j \in 1..CMDCORR_MAX : First(i) /\ First(j) => i = j
    <2> SUFFICES ASSUME NEW i \in 1..CMDCORR_MAX, NEW j \in 1..CMDCORR_MAX, First(i), First(j),
                        i # j
                 PROVE  FALSE
      OBVIOUS
    <2>1. CASE i < j
      <3>1. i \in 1..(j - 1)
        BY <2>1, <1>0
      <3> QED BY <3>1
    <2>2. CASE j < i
      <3>1. j \in 1..(i - 1)
        BY <2>2, <1>0
      <3> QED BY <3>1
    <2> QED BY <2>1, <2>2, <1>0
  <1>4. \A i \in 1..CMDCORR_MAX : First(i) => tbl[i] = Free
    OBVIOUS
  <1> HIDE DEF First
  <1>5. CorrAdd(c, tbl) = [i \in 1..CMDCORR_MAX |-> CorrAdd(c, tbl)[i]]
    BY <1>1
  <1>6. \A i \in 1..CMDCORR_MAX : \/ CorrAdd(c, tbl)[i] = tbl[i]
                                  \/ tbl[i] = Free /\ CorrAdd(c, tbl)[i] = Correlation(c)
    BY <1>2, <1>4
  <1>7. \A i, j \in 1..CMDCORR_MAX :
                CorrAdd(c, tbl)[i] # tbl[i] /\ CorrAdd(c, tbl)[j] # tbl[j] => i = j
    BY <1>2, <1>3
  <1> QED BY <1>5, <1>6, <1>7

LEMMA HostIdInj == \A n, m \in Nat : HostId(n) = HostId(m) => n = m
  BY Consts DEF HostId

LEMMA EntryOfProps ==
    ASSUME NEW rq \in Requests, NEW num \in NumFun, NEW n \in 1..Len(rq)
    PROVE  /\ EntryOf(rq, num, n) \in Entry /\ EntryOf(rq, num, n) # Free
           /\ EntryOf(rq, num, n).host = HostId(n) /\ EntryOf(rq, num, n).id = num[n]
           /\ EntryOf(rq, num, n).addr = rq[n].to
           /\ EntryOf(rq, num, n).orig = (rq[n].kind = "orig")
  <1>0. Len(rq) \in 0..MaxReqs /\ MaxReqs \in Nat
    BY RequestsProps, Consts
  <1>1. rq[n].to \in Slaves /\ n \in Nat /\ n \in 1..MaxReqs
    BY <1>0, RequestsProps
  <1>2. num[n] \in Nat /\ HostId(n) \in Nat /\ rq[n].to \in Nat /\ rq[n].to # App
    BY <1>1, Consts DEF NumFun
  <1>3. (rq[n].kind = "orig") \in BOOLEAN
    OBVIOUS
  <1> QED BY <1>2, <1>3 DEF EntryOf, Entry, Free

(* Adding the entry of a request that has none keeps the table sound.      *)
LEMMA CorrAddKeeps ==
    ASSUME NEW rq \in Requests, NEW at, NEW num \in NumFun, NEW tbl, CorrOK(rq, at, num, tbl),
           NEW n \in 1..Len(rq), num[n] # 0, at[n] \notin {"cmd", "orig"},
           \A i \in 1..CMDCORR_MAX : tbl[i] # Free => tbl[i].host # HostId(n),
           NEW c, Correlation(c) = EntryOf(rq, num, n)
    PROVE  /\ CorrOK(rq, at, num, CorrAdd(c, tbl))
           /\ \A i \in 1..CMDCORR_MAX : CorrAdd(c, tbl)[i] # Free =>
                tbl[i] = CorrAdd(c, tbl)[i] \/ CorrAdd(c, tbl)[i].host = HostId(n)
  <1> DEFINE e == EntryOf(rq, num, n)
             t == CorrAdd(c, tbl)
  <1>0. tbl \in [1..CMDCORR_MAX -> Entry]
    BY DEF CorrOK
  <1>1. e \in Entry /\ e # Free /\ e.host = HostId(n) /\ IsEntry(rq, at, num, e)
    BY EntryOfProps DEF IsEntry
  <1>2. /\ t = [i \in 1..CMDCORR_MAX |-> t[i]]
        /\ \A i \in 1..CMDCORR_MAX : t[i] = tbl[i] \/ (tbl[i] = Free /\ t[i] = e)
        /\ \A i, j \in 1..CMDCORR_MAX : t[i] # tbl[i] /\ t[j] # tbl[j] => i = j
    <2>1. /\ CorrAdd(c, tbl) = [i \in 1..CMDCORR_MAX |-> CorrAdd(c, tbl)[i]]
          /\ \A i \in 1..CMDCORR_MAX : \/ CorrAdd(c, tbl)[i] = tbl[i]
                                       \/ tbl[i] = Free /\ CorrAdd(c, tbl)[i] = Correlation(c)
          /\ \A i, j \in 1..CMDCORR_MAX :
               CorrAdd(c, tbl)[i] # tbl[i] /\ CorrAdd(c, tbl)[j] # tbl[j] => i = j
      BY ONLY <1>0, CorrAddProps
    <2>2. Correlation(c) = e
      OBVIOUS
    <2> QED BY <2>1, <2>2, Zenon
  <1> HIDE DEF e, t
  <1>3. t \in [1..CMDCORR_MAX -> Entry]
    BY <1>0, <1>1, <1>2
  <1>4. \A i \in 1..CMDCORR_MAX : t[i] # Free => IsEntry(rq, at, num, t[i])
    BY <1>1, <1>2 DEF CorrOK
  <1>5. \A i, j \in 1..CMDCORR_MAX :
          t[i] # Free /\ t[j] # Free /\ t[i].host = t[j].host => i = j
    <2> SUFFICES ASSUME NEW i \in 1..CMDCORR_MAX, NEW j \in 1..CMDCORR_MAX,
                        t[i] # Free, t[j] # Free, t[i].host = t[j].host
                 PROVE  i = j
      OBVIOUS
    <2>1. CASE t[i] = tbl[i] /\ t[j] = tbl[j]
      BY <2>1 DEF CorrOK
    <2>2. CASE t[i] # tbl[i] /\ t[j] # tbl[j]
      BY <2>2, <1>2
    <2>3. CASE t[i] = tbl[i] /\ t[j] # tbl[j]
      BY <2>3, <1>1, <1>2
    <2>4. CASE t[i] # tbl[i] /\ t[j] = tbl[j]
      BY <2>4, <1>1, <1>2
    <2> QED BY <2>1, <2>2, <2>3, <2>4
  <1>6. CorrOK(rq, at, num, t)
    BY <1>3, <1>4, <1>5 DEF CorrOK
  <1>7. \A i \in 1..CMDCORR_MAX : t[i] # Free => tbl[i] = t[i] \/ t[i].host = HostId(n)
    BY <1>1, <1>2
  <1> QED BY <1>6, <1>7 DEF t

-----------------------------------------------------------------------------
(* What a step keeps of a part it does not touch, when only request n      *)
(* moves or gets its number.                                               *)
Grown == reqs \in Requests /\ reqs' \in Requests /\ Extends(reqs, reqs')
OnlyMoves(at, num, at2, num2, n) ==
    \A m \in 1..MaxReqs : m # n => at2[m] = at[m] /\ num2[m] = num[m]
EntryPlaces(rq, at, at2) ==
    \A n \in 1..Len(rq) : at[n] \notin {"cmd", "orig"} => at2[n] \notin {"cmd", "orig"}

LEMMA MoveKeeps ==
    ASSUME NEW rq \in Requests, NEW at, NEW num, NEW at2, NEW num2, NEW n, NEW p,
           OnlyMoves(at, num, at2, num2, n), at[n] # p
    PROVE  Keeps(rq, at, num, at2, num2, p)
  <1>1. Len(rq) \in 0..MaxReqs /\ MaxReqs \in Nat
    BY RequestsProps, Consts
  <1>2. \A m \in 1..Len(rq) : m \in 1..MaxReqs
    BY <1>1
  <1> QED BY <1>2 DEF Keeps, OnlyMoves

LEMMA SameKeeps ==
    ASSUME NEW rq, NEW at, NEW num
    PROVE  /\ \A p : Keeps(rq, at, num, at, num, p)
           /\ NumKeeps(rq, num, num) /\ EntryPlaces(rq, at, at)
           /\ \A rn : RanKeeps(rq, rn, rn)
  BY DEF Keeps, NumKeeps, EntryPlaces, RanKeeps

LEMMA SameReqs ==
    ASSUME NEW at, ReqsPart(at), reqs' = reqs
    PROVE  Grown
  BY RequestsProps DEF Grown, ReqsPart, Extends

LEMMA ReqsFrame ==
    ASSUME NEW at, NEW at2, ReqsPart(at), UNCHANGED <<reqs, ran>>,
           \A n \in 1..Len(reqs) : at[n] = "gone" => at2[n] = "gone"
    PROVE  ReqsPart(at2)'
  BY DEF ReqsPart

LEMMA CtlFrame == CtlPart /\ UNCHANGED <<st, cyc, cursor>> => CtlPart'
  BY DEF CtlPart

LEMMA CmdFrame ==
    ASSUME NEW at, NEW num, NEW at2, NEW num2, Grown, CmdPart(at, num),
           UNCHANGED <<pending, cmd, st>>, Keeps(reqs, at, num, at2, num2, "cmd")
    PROVE  CmdPart(at2, num2)'
  <1>1. cmd = NoCmd \/ Staged(reqs', cmd)
    BY StagedKeeps DEF CmdPart, Grown
  <1>2. Live => Placed(reqs', at2, num2, cmd, "cmd")
    BY PlacedKeeps DEF CmdPart, Grown
  <1>3. Live' = Live
    BY DEF Live
  <1> QED BY <1>1, <1>2, <1>3 DEF CmdPart

(* The staged command is withdrawn.                                        *)
LEMMA CmdWithdrawn ==
    ASSUME NEW at, NEW num, NEW at2, NEW num2, Grown, CmdPart(at, num),
           cmd' = cmd, pending' = FALSE
    PROVE  CmdPart(at2, num2)'
  <1>1. cmd' = NoCmd \/ Staged(reqs', cmd')
    BY StagedKeeps DEF CmdPart, Grown
  <1>2. pending' \in BOOLEAN /\ ~pending'
    OBVIOUS
  <1> QED BY <1>1, <1>2 DEF CmdPart, Live

LEMMA JobFrame ==
    ASSUME NEW at, NEW num, NEW at2, NEW num2, Grown, JobPart(at, num),
           UNCHANGED <<job, st>>, Keeps(reqs, at, num, at2, num2, "job")
    PROVE  JobPart(at2, num2)'
  <1>1. Staged(reqs, job.c) => Staged(reqs', job.c)
    BY StagedKeeps DEF Grown
  <1>2. st = "inject" => Placed(reqs', at2, num2, job.c, "job")
    BY PlacedKeeps DEF JobPart, Grown
  <1> QED BY <1>1, <1>2 DEF JobPart

LEMMA EngFrame ==
    ASSUME NEW at, NEW num, NEW at2, NEW num2, Grown, EngPart(at, num), eng' = eng,
           Keeps(reqs, at, num, at2, num2, "eng")
    PROVE  EngPart(at2, num2)'
  BY PlacedKeeps DEF EngPart, Grown

LEMMA OrigFrame ==
    ASSUME NEW at, NEW num, NEW at2, Grown, OrigPart(at, num),
           UNCHANGED <<reqs, origQ, origSeq>>, Keeps(reqs, at, num, at2, num, "orig")
    PROVE  OrigPart(at2, num)'
  <1>1. QueueOK(reqs, at2, num, origQ)
    BY QueueKeeps DEF OrigPart, Grown
  <1> QED BY <1>1 DEF OrigPart

LEMMA ListFrame ==
    ASSUME NEW at, NEW num, NEW at2, NEW num2, Grown, ListPart(at, num),
           UNCHANGED <<outbox, sending>>, Keeps(reqs, at, num, at2, num2, "out"),
           Keeps(reqs, at, num, at2, num2, "send")
    PROVE  ListPart(at2, num2)'
  BY ListKeeps DEF ListPart, Grown

LEMMA NodeFrame ==
    ASSUME NEW num, NEW num2, Grown, NodePart(num), UNCHANGED <<appq, txq, rx>>,
           RanKeeps(reqs, ran, ran'), NumKeeps(reqs, num, num2)
    PROVE  NodePart(num2)'
  <1>1. /\ \A a \in Slaves : Replies(reqs, ran, num, a) \subseteq Replies(reqs', ran', num2, a)
        /\ Frames(reqs, ran, num) \subseteq Frames(reqs', ran', num2)
    BY RepliesKeep DEF Grown
  <1>2. \A a \in Slaves : /\ appq[a] \in Seq(Replies(reqs', ran', num2, a))
                          /\ txq[a] \in Seq(Replies(reqs', ran', num2, a))
    BY <1>1, SeqMonotonic DEF NodePart
  <1>3. rx \in Seq(Frames(reqs', ran', num2))
    BY <1>1, SeqMonotonic DEF NodePart
  <1> QED BY <1>2, <1>3 DEF NodePart

LEMMA CorrFrame ==
    ASSUME NEW at, NEW num, NEW at2, NEW num2, Grown, CorrPart(at, num),
           UNCHANGED <<corr, told>>, NumKeeps(reqs, num, num2), EntryPlaces(reqs, at, at2)
    PROVE  CorrPart(at2, num2)'
  <1>1. CorrOK(reqs', at2, num2, corr)
    BY CorrKeeps DEF CorrPart, Grown, EntryPlaces
  <1>2. EntryOutstanding'
    BY DEF CorrPart, EntryOutstanding
  <1> QED BY <1>1, <1>2 DEF CorrPart

LEMMA ToldFrame ==
    ASSUME Grown, ToldPart, told' = told, RanKeeps(reqs, ran, ran')
    PROVE  ToldPart'
  <1>0. Len(reqs) \in Nat /\ Len(reqs') \in Nat /\ Len(reqs) <= Len(reqs')
    BY RequestsProps DEF Grown, Extends
  <1>1. \A t \in told : t.of \in 1..Len(reqs) /\ t.of \in 1..Len(reqs') /\ reqs'[t.of] = reqs[t.of]
    BY <1>0 DEF ToldPart, ToldOK, Grown, Extends
  <1>2. ToldOK(reqs', ran', told)
    BY <1>1 DEF ToldPart, ToldOK, RanKeeps
  <1>3. RelayMatches'
    BY <1>1 DEF ToldPart, RelayMatches, RightRequester
  <1> QED BY <1>2, <1>3 DEF ToldPart

-----------------------------------------------------------------------------
LEMMA InvGives ==
    ASSUME NEW at \in AtFun, NEW num \in NumFun, Inv(at, num)'
    PROVE  IInv'
  BY DEF IInv

LEMMA Parts ==
    ASSUME NEW at, NEW num, Inv(at, num)
    PROVE  /\ ReqsPart(at) /\ CtlPart /\ CmdPart(at, num) /\ JobPart(at, num) /\ EngPart(at, num)
           /\ OrigPart(at, num) /\ ListPart(at, num) /\ NodePart(num) /\ CorrPart(at, num)
           /\ ToldPart
           /\ reqs \in Requests /\ Len(reqs) \in 0..MaxReqs /\ Len(reqs) \in Nat
  <1>1. reqs \in Requests
    BY DEF Inv, ReqsPart
  <1>2. Len(reqs) \in 0..MaxReqs /\ MaxReqs \in Nat
    BY <1>1, RequestsProps, Consts
  <1> QED BY <1>1, <1>2 DEF Inv

(* The requests with one more.                                             *)
LEMMA NewRequest ==
    ASSUME NEW at, ReqsPart(at), Len(reqs) < MaxReqs, NEW q \in Request,
           reqs' = Append(reqs, q), ran' = Append(ran, 0)
    PROVE  /\ Grown /\ RanKeeps(reqs, ran, ran') /\ Len(reqs') = Len(reqs) + 1
           /\ Len(reqs) \in Nat /\ Len(reqs) + 1 \in 1..MaxReqs
           /\ Len(reqs) + 1 \notin 1..Len(reqs)
           /\ \A n \in 1..Len(reqs) : reqs'[n] = reqs[n]
           /\ reqs'[Len(reqs) + 1] = q
           /\ 1..Len(reqs') = 1..Len(reqs) \cup {Len(reqs) + 1}
           /\ \A at2 : (\A n \in 1..Len(reqs) : at2[n] = at[n]) => ReqsPart(at2)'
  <1>1. /\ reqs \in Seq(Request) /\ Len(reqs) \in Nat /\ MaxReqs \in Nat /\ reqs \in Requests
        /\ ran \in Seq(Nat) /\ Len(ran) = Len(reqs)
    BY RequestsProps, Consts DEF ReqsPart
  <1>2. /\ reqs' \in Seq(Request) /\ Len(reqs') = Len(reqs) + 1 /\ reqs'[Len(reqs) + 1] = q
        /\ \A n \in 1..Len(reqs) : reqs'[n] = reqs[n]
    BY <1>1
  <1>3. /\ ran' \in Seq(Nat) /\ Len(ran') = Len(reqs) + 1 /\ ran'[Len(reqs) + 1] = 0
        /\ \A n \in 1..Len(reqs) : ran'[n] = ran[n]
    BY <1>1
  <1>4. reqs' \in Requests
    BY <1>1, <1>2 DEF Requests
  <1>5. Grown
    BY <1>1, <1>2, <1>4 DEF Grown, Extends
  <1>6. RanKeeps(reqs, ran, ran')
    BY <1>3 DEF RanKeeps
  <1>7. Len(reqs) + 1 \in 1..MaxReqs /\ Len(reqs) + 1 \notin 1..Len(reqs)
    BY <1>1
  <1>8. 1..Len(reqs') = 1..Len(reqs) \cup {Len(reqs) + 1}
    BY <1>1, <1>2
  <1>9. ASSUME NEW at2, \A n \in 1..Len(reqs) : at2[n] = at[n]
        PROVE  ReqsPart(at2)'
    <2>1. \A n \in 1..Len(reqs') : ran'[n] = 0 \/ (ran'[n] = 1 /\ at2[n] = "gone")
      BY <1>3, <1>8, <1>9 DEF ReqsPart
    <2> QED BY <2>1, <1>2, <1>3, <1>4 DEF ReqsPart
  <1> QED BY <1>1, <1>2, <1>5, <1>6, <1>7, <1>8, <1>9

LEMMA SlaveOf == ASSUME NEW a \in Slaves, NEW k \in Kinds PROVE [to |-> a, kind |-> k] \in Request
  BY DEF Request

(* The witnesses with request n put into place p under number w.           *)
LEMMA Moving ==
    ASSUME NEW at \in AtFun, NEW num \in NumFun,
           NEW n \in 1..MaxReqs, NEW p \in Places, NEW w \in Nat
    PROVE  \E at2 \in AtFun, num2 \in NumFun :
             OnlyMoves(at, num, at2, num2, n) /\ at2[n] = p /\ num2[n] = w
  <1> DEFINE at2 == [at EXCEPT ![n] = p]
             num2 == [num EXCEPT ![n] = w]
  <1>1. at2 \in AtFun /\ num2 \in NumFun /\ at2[n] = p /\ num2[n] = w
    BY DEF AtFun, NumFun
  <1>2. OnlyMoves(at, num, at2, num2, n)
    BY DEF AtFun, NumFun, OnlyMoves
  <1> QED BY <1>1, <1>2

(* A request that is just added has no place yet to be moved from.         *)
LEMMA FreshKeeps ==
    ASSUME NEW rq \in Requests, NEW at, NEW num, NEW at2, NEW num2, NEW n, n = Len(rq) + 1,
           OnlyMoves(at, num, at2, num2, n)
    PROVE  /\ \A m \in 1..Len(rq) : at2[m] = at[m] /\ num2[m] = num[m]
           /\ Keeps(rq, at, num, at2, num2, "cmd") /\ Keeps(rq, at, num, at2, num2, "job")
           /\ Keeps(rq, at, num, at2, num2, "eng") /\ Keeps(rq, at, num, at2, num2, "orig")
           /\ Keeps(rq, at, num, at2, num2, "out") /\ Keeps(rq, at, num, at2, num2, "send")
           /\ NumKeeps(rq, num, num2) /\ EntryPlaces(rq, at, at2)
  <1>1. Len(rq) \in 0..MaxReqs /\ MaxReqs \in Nat
    BY RequestsProps, Consts
  <1>2. \A m \in 1..Len(rq) : m \in 1..MaxReqs /\ m # n
    BY <1>1
  <1>3. \A m \in 1..Len(rq) : at2[m] = at[m] /\ num2[m] = num[m]
    BY <1>2 DEF OnlyMoves
  <1> QED BY <1>3 DEF Keeps, NumKeeps, EntryPlaces

(* The numbers with the host's next one.                                   *)
LEMMA HostNumber ==
    ASSUME Apart, NEW rq \in Requests, NEW rq2 \in Requests, Extends(rq, rq2),
           Len(rq2) = Len(rq) + 1, NEW n, n = Len(rq) + 1, rq2[n].kind # "orig",
           NEW seq \in Nat, seq <= Len(rq), NEW num, NEW num2, NumOK(rq, seq, num),
           \A m \in 1..Len(rq) : num2[m] = num[m], num2[n] = HostId(n)
    PROVE  NumOK(rq2, seq, num2)
  <1>0. Len(rq) \in Nat /\ Len(rq2) <= MaxReqs /\ MaxReqs \in Nat /\ HostBase \in Nat
    BY RequestsProps, Consts
  <1>1. \A m \in 1..Len(rq2) : (m \in 1..Len(rq) /\ rq2[m] = rq[m]) \/ m = n
    BY <1>0 DEF Extends
  <1>2. \A m \in 1..Len(rq2) : IF rq2[m].kind = "orig" THEN num2[m] \in 0..seq
                               ELSE num2[m] = HostId(m)
    BY <1>1 DEF NumOK
  <1>3. ASSUME NEW m \in 1..Len(rq) PROVE num2[m] # HostId(n)
    <2>1. CASE rq[m].kind = "orig"
      BY <2>1, <1>0, <1>3 DEF NumOK, Apart, HostId
    <2>2. CASE rq[m].kind # "orig"
      <3>1. num2[m] = HostId(m) /\ m # n /\ m \in Nat /\ n \in Nat
        BY <2>2, <1>0, <1>3 DEF NumOK
      <3> QED BY <3>1, HostIdInj
    <2> QED BY <2>1, <2>2
  <1>4. \A m, l \in 1..Len(rq2) : num2[m] = num2[l] /\ num2[m] # 0 => m = l
    BY <1>1, <1>3 DEF NumOK
  <1> QED BY <1>2, <1>4 DEF NumOK

LEMMA HostCommandStep ==
    ASSUME NEW at \in AtFun, NEW num \in NumFun, Inv(at, num), Apart,
           NEW a \in Slaves, NEW k \in Kinds \ {"orig"}, HostCommand(a, k)
    PROVE  IInv'
  <1>0. /\ reqs' = Append(reqs, [to |-> a, kind |-> k]) /\ ran' = Append(ran, 0)
        /\ Len(reqs) < MaxReqs
    BY DEF HostCommand
  <1>u. UNCHANGED <<told, origQ, origSeq, corr, eng, st, job, cyc, sending, cursor, rx, appq,
                    txq, outbox>>
    BY DEF HostCommand, corrVars, busVars
  <1>p. /\ ReqsPart(at) /\ CtlPart /\ CmdPart(at, num) /\ JobPart(at, num) /\ EngPart(at, num)
        /\ OrigPart(at, num) /\ ListPart(at, num) /\ NodePart(num) /\ CorrPart(at, num)
        /\ ToldPart /\ Len(reqs) \in Nat /\ reqs \in Requests
    BY Parts
  <1>n. PICK n : n = Len(reqs) + 1
    OBVIOUS
  <1>1. /\ Grown /\ RanKeeps(reqs, ran, ran') /\ Len(reqs') = n
        /\ n \in 1..MaxReqs /\ reqs'[n] = [to |-> a, kind |-> k]
        /\ \A x : (\A m \in 1..Len(reqs) : x[m] = at[m]) => ReqsPart(x)'
    BY <1>0, <1>p, <1>n, NewRequest, SlaveOf
  <1>2. HostId(n) \in Nat /\ n \in Nat /\ HostId(n) # 0
    BY <1>1, <1>p, <1>n, Consts DEF HostId
  <1>3. PICK at2 \in AtFun, num2 \in NumFun :
             OnlyMoves(at, num, at2, num2, n) /\ at2[n] = "cmd" /\ num2[n] = HostId(n)
    <2>1. "cmd" \in Places /\ n \in 1..MaxReqs /\ HostId(n) \in Nat
      BY <1>1, <1>2 DEF Places
    <2> QED BY <2>1, Moving
  <1>4. /\ \A m \in 1..Len(reqs) : at2[m] = at[m] /\ num2[m] = num[m]
        /\ Keeps(reqs, at, num, at2, num2, "cmd") /\ Keeps(reqs, at, num, at2, num2, "job")
        /\ Keeps(reqs, at, num, at2, num2, "eng") /\ Keeps(reqs, at, num, at2, num2, "orig")
        /\ Keeps(reqs, at, num, at2, num2, "out") /\ Keeps(reqs, at, num, at2, num2, "send")
        /\ NumKeeps(reqs, num, num2) /\ EntryPlaces(reqs, at, at2)
    BY <1>p, <1>n, <1>3, FreshKeeps
  <1>5. ReqsPart(at2)' /\ CtlPart'
    BY <1>1, <1>4, <1>u, <1>p, CtlFrame
  <1>6. CmdPart(at2, num2)'
    <2>1. CASE pending
      <3>1. UNCHANGED <<pending, cmd>>
        BY <2>1 DEF HostCommand
      <3> QED BY <3>1, <1>u, <1>p, <1>1, <1>4, CmdFrame
    <2>2. CASE ~pending
      <3>1. PICK c : c = [to |-> a, id |-> HostId(n), orig |-> FALSE, host |-> HostId(n),
                          of |-> n, app |-> k = "app"]
        OBVIOUS
      <3>2. cmd' = c /\ pending' = TRUE
        BY <2>2, <3>1, <1>n DEF HostCommand
      <3>3. /\ c \in Command /\ c.of = n /\ c.to = a /\ c.id = HostId(n) /\ c.host = HostId(n)
            /\ c.orig = FALSE
        BY <1>1, <1>2, <3>1 DEF Command
      <3>4. reqs'[n].to = a /\ reqs'[n].kind # "orig" /\ n \in 1..Len(reqs')
        BY <1>1, <1>2
      <3>5. Staged(reqs', c)
        BY <3>3, <3>4 DEF Staged
      <3>6. Placed(reqs', at2, num2, c, "cmd")
        BY <3>3, <3>5, <1>2, <1>3 DEF Placed
      <3>7. c # NoCmd /\ ~c.orig
        BY <3>3, Consts
      <3> QED BY <3>2, <3>5, <3>6, <3>7 DEF CmdPart
    <2> QED BY <2>1, <2>2
  <1>7. JobPart(at2, num2)' /\ EngPart(at2, num2)'
    BY <1>p, <1>1, <1>4, <1>u, JobFrame, EngFrame
  <1>8. OrigPart(at2, num2)'
    <2>1. QueueOK(reqs', at2, num2, origQ)
      BY <1>p, <1>1, <1>4, QueueKeeps DEF Grown, OrigPart
    <2>2. Len(origQ) \in Nat /\ origSeq \in Nat /\ origSeq <= Len(reqs)
      BY <1>p DEF OrigPart, QueueOK
    <2>3. reqs'[n].kind # "orig" /\ NumOK(reqs, origSeq, num)
      BY <1>1, <1>p DEF OrigPart
    <2>4. NumOK(reqs', origSeq, num2)
      BY <2>2, <2>3, <1>1, <1>3, <1>4, <1>n, HostNumber DEF Grown
    <2> QED BY <2>1, <2>2, <2>4, <1>u, <1>p, <1>1, <1>n DEF OrigPart
  <1>9. ListPart(at2, num2)' /\ NodePart(num2)'
    BY <1>p, <1>1, <1>4, <1>u, ListFrame, NodeFrame
  <1>10. CorrPart(at2, num2)' /\ ToldPart'
    BY <1>p, <1>1, <1>4, <1>u, CorrFrame, ToldFrame
  <1>11. Inv(at2, num2)'
    BY <1>5, <1>6, <1>7, <1>8, <1>9, <1>10 DEF Inv
  <1> QED BY <1>11, InvGives

(* Core1 numbers a request, or a request waits without a number.           *)
LEMMA OrigNumber ==
    ASSUME Apart, NEW rq \in Requests, NEW rq2 \in Requests, Extends(rq, rq2),
           NEW n \in 1..Len(rq2), 1..Len(rq2) \subseteq 1..Len(rq) \cup {n},
           rq2[n].kind = "orig", NEW seq \in Nat, NEW seq2 \in Nat, seq2 <= Len(rq2),
           seq <= seq2, NEW num, NEW num2,
           NumOK(rq, seq, num), \A m \in 1..Len(rq) : m # n => num2[m] = num[m],
           num2[n] = 0 \/ (num2[n] = seq2 /\ seq < seq2)
    PROVE  NumOK(rq2, seq2, num2)
  <1>0. /\ Len(rq) \in Nat /\ Len(rq2) <= MaxReqs /\ MaxReqs \in Nat /\ HostBase \in Nat
        /\ Len(rq2) \in Nat
    BY RequestsProps, Consts
  <1>1. \A m \in 1..Len(rq2) : (m \in 1..Len(rq) /\ rq2[m] = rq[m] /\ num2[m] = num[m]) \/ m = n
    BY <1>0 DEF Extends
  <1>2. \A m \in 1..Len(rq2) : IF rq2[m].kind = "orig" THEN num2[m] \in 0..seq2
                               ELSE num2[m] = HostId(m)
    <2>1. num2[n] \in 0..seq2
      OBVIOUS
    <2>2. ASSUME NEW m \in 1..Len(rq), rq[m].kind = "orig" PROVE num[m] \in 0..seq2
      <3>1. num[m] \in 0..seq
        BY <2>2 DEF NumOK
      <3> QED BY <3>1
    <2> QED BY <1>1, <2>1, <2>2 DEF NumOK
  <1>3. ASSUME NEW m \in 1..Len(rq2), m # n, num2[n] # 0 PROVE num2[m] # num2[n]
    <2>0. m \in 1..Len(rq) /\ num2[m] = num[m] /\ num2[n] = seq2 /\ seq < seq2
      BY <1>1, <1>3
    <2>1. CASE rq[m].kind = "orig"
      <3>1. num[m] \in 0..seq
        BY <2>0, <2>1 DEF NumOK
      <3> QED BY <2>0, <3>1
    <2>2. CASE rq[m].kind # "orig"
      <3>1. num[m] = HostId(m) /\ m \in Nat /\ m # 0
        BY <2>0, <2>2, <1>0 DEF NumOK
      <3> QED BY <2>0, <3>1, <1>0 DEF Apart, HostId
    <2> QED BY <2>1, <2>2
  <1>4. \A m, l \in 1..Len(rq2) : num2[m] = num2[l] /\ num2[m] # 0 => m = l
    BY <1>1, <1>3 DEF NumOK
  <1> QED BY <1>2, <1>4 DEF NumOK

(* An entry names a request asked already.                                 *)
LEMMA EntryKnown ==
    ASSUME NEW rq \in Requests, NEW at, NEW num \in NumFun, NEW tbl, CorrOK(rq, at, num, tbl),
           NEW i \in 1..CMDCORR_MAX, tbl[i] # Free
    PROVE  \E m \in 1..Len(rq) : /\ tbl[i] = EntryOf(rq, num, m) /\ tbl[i].host = HostId(m)
                                 /\ num[m] # 0 /\ at[m] \notin {"cmd", "orig"}
  BY EntryOfProps DEF CorrOK, IsEntry

LEMMA HostOriginateStep ==
    ASSUME NEW at \in AtFun, NEW num \in NumFun, Inv(at, num), Apart,
           NEW a \in Slaves, HostOriginate(a)
    PROVE  IInv'
  <1>0. /\ reqs' = Append(reqs, [to |-> a, kind |-> "orig"]) /\ ran' = Append(ran, 0)
        /\ Len(reqs) < MaxReqs /\ eng = NoCmd /\ "orig" \in Kinds
    BY DEF HostOriginate
  <1>u. UNCHANGED <<told, pending, cmd, st, job, cyc, sending, cursor, rx, appq, txq, outbox>>
    BY DEF HostOriginate, busVars
  <1>p. /\ ReqsPart(at) /\ CtlPart /\ CmdPart(at, num) /\ JobPart(at, num) /\ EngPart(at, num)
        /\ OrigPart(at, num) /\ ListPart(at, num) /\ NodePart(num) /\ CorrPart(at, num)
        /\ ToldPart /\ Len(reqs) \in Nat /\ reqs \in Requests
    BY Parts
  <1>q. /\ Len(origQ) \in Nat /\ origSeq \in Nat /\ origSeq + Len(origQ) <= Len(reqs)
        /\ Len(origQ) <= OrigLen /\ QueueOK(reqs, at, num, origQ) /\ NumOK(reqs, origSeq, num)
        /\ origQ \in Seq(StagedCmds(reqs))
    BY <1>p DEF OrigPart, QueueOK
  <1>n. PICK n : n = Len(reqs) + 1
    OBVIOUS
  <1>1. /\ Grown /\ RanKeeps(reqs, ran, ran') /\ Len(reqs') = n
        /\ n \in 1..MaxReqs /\ reqs'[n] = [to |-> a, kind |-> "orig"]
        /\ 1..Len(reqs') = 1..Len(reqs) \cup {n} /\ n \notin 1..Len(reqs)
        /\ \A x : (\A m \in 1..Len(reqs) : x[m] = at[m]) => ReqsPart(x)'
    BY <1>0, <1>p, <1>n, NewRequest, SlaveOf
  <1>2. /\ HostId(n) \in Nat /\ n \in Nat /\ n \in 1..Len(reqs')
        /\ reqs'[n].to = a /\ reqs'[n].kind = "orig"
    BY <1>1, <1>p, <1>n, Consts DEF HostId
  <1>c. PICK c : c = [to |-> a, id |-> origSeq + 1, orig |-> TRUE, host |-> HostId(n),
                      of |-> n, app |-> TRUE]
    OBVIOUS
  <1>3. /\ c \in Command /\ c.of = n /\ c.to = a /\ c.id = origSeq + 1 /\ c.host = HostId(n)
        /\ c.orig = TRUE /\ c # NoCmd
    <2>1. /\ c \in Command /\ c.of = n /\ c.to = a /\ c.id = origSeq + 1 /\ c.host = HostId(n)
          /\ c.orig = TRUE
      BY <1>1, <1>2, <1>q, <1>c DEF Command
    <2> QED BY <2>1, Consts
  <1>4. Staged(reqs', c)
    BY <1>2, <1>3 DEF Staged
  <1>5. CASE cycleMode
    <2>u. eng' = c /\ corr' = CorrAdd(c, corr) /\ origSeq' = origSeq + 1 /\ origQ' = origQ
      BY <1>5, <1>c, <1>n DEF HostOriginate
    <2>1. PICK at2 \in AtFun, num2 \in NumFun :
               OnlyMoves(at, num, at2, num2, n) /\ at2[n] = "eng" /\ num2[n] = origSeq + 1
      <3>1. "eng" \in Places /\ origSeq + 1 \in Nat /\ n \in 1..MaxReqs
        BY <1>1, <1>q DEF Places
      <3> QED BY <3>1, Moving
    <2>2. /\ \A m \in 1..Len(reqs) : at2[m] = at[m] /\ num2[m] = num[m]
          /\ Keeps(reqs, at, num, at2, num2, "cmd") /\ Keeps(reqs, at, num, at2, num2, "job")
          /\ Keeps(reqs, at, num, at2, num2, "eng") /\ Keeps(reqs, at, num, at2, num2, "orig")
          /\ Keeps(reqs, at, num, at2, num2, "out") /\ Keeps(reqs, at, num, at2, num2, "send")
          /\ NumKeeps(reqs, num, num2) /\ EntryPlaces(reqs, at, at2)
      BY <1>p, <1>n, <2>1, FreshKeeps
    <2>3. ReqsPart(at2)' /\ CtlPart'
      BY <1>1, <2>2, <1>u, <1>p, CtlFrame
    <2>4. CmdPart(at2, num2)' /\ JobPart(at2, num2)'
      BY <1>u, <1>p, <1>1, <2>2, CmdFrame, JobFrame
    <2>5. EngPart(at2, num2)'
      <3>1. Placed(reqs', at2, num2, c, "eng")
        BY <1>3, <1>4, <1>q, <2>1 DEF Placed
      <3> QED BY <3>1, <2>u DEF EngPart
    <2>6. OrigPart(at2, num2)'
      <3>1. QueueOK(reqs', at2, num2, origQ)
        BY <1>p, <1>q, <1>1, <2>2, QueueKeeps DEF Grown
      <3>2. /\ origSeq + 1 \in Nat /\ origSeq + 1 <= Len(reqs') /\ origSeq <= origSeq + 1
            /\ origSeq < origSeq + 1 /\ origSeq + 1 + Len(origQ) <= Len(reqs')
        BY <1>q, <1>1, <1>n, <1>p
      <3>3. NumOK(reqs', origSeq + 1, num2)
        BY <3>2, <1>q, <1>1, <1>2, <2>1, <2>2, OrigNumber, ZenonT(60) DEF Grown
      <3> QED BY <3>1, <3>2, <3>3, <1>q, <2>u DEF OrigPart
    <2>7. ListPart(at2, num2)' /\ NodePart(num2)'
      BY <1>p, <1>1, <2>2, <1>u, ListFrame, NodeFrame
    <2>8. ToldPart'
      BY <1>p, <1>1, <1>u, ToldFrame
    <2>9. CorrPart(at2, num2)'
      <3>1. CorrOK(reqs', at2, num2, corr)
        BY <1>p, <1>1, <2>2, CorrKeeps DEF CorrPart, Grown, EntryPlaces
      <3>2. \A i \in 1..CMDCORR_MAX : corr[i] # Free => corr[i].host # HostId(n)
        <4> SUFFICES ASSUME NEW i \in 1..CMDCORR_MAX, corr[i] # Free
                     PROVE  corr[i].host # HostId(n)
          OBVIOUS
        <4>0. CorrOK(reqs, at, num, corr)
          BY <1>p DEF CorrPart
        <4>1. PICK m \in 1..Len(reqs) : corr[i].host = HostId(m)
          BY <4>0, <1>p, EntryKnown
        <4>2. m # n /\ m \in Nat
          BY <1>1, <1>p
        <4> QED BY <4>1, <4>2, <1>2, HostIdInj
      <3>3. Correlation(c) = EntryOf(reqs', num2, n)
        <4>1. (reqs'[n].kind = "orig") = TRUE
          BY <1>2
        <4> QED BY <4>1, <1>2, <1>3, <2>1 DEF Correlation, EntryOf
      <3>4. num2[n] # 0 /\ at2[n] \notin {"cmd", "orig"} /\ reqs' \in Requests
        BY <2>1, <1>q, <1>1 DEF Grown
      <3>5. /\ CorrOK(reqs', at2, num2, corr')
            /\ \A i \in 1..CMDCORR_MAX : corr'[i] # Free =>
                 corr[i] = corr'[i] \/ corr'[i].host = HostId(n)
        BY <3>1, <3>2, <3>3, <3>4, <2>u, <1>2, CorrAddKeeps
      <3>6. EntryOutstanding'
        <4> SUFFICES ASSUME NEW i \in 1..CMDCORR_MAX, corr'[i] # Free,
                            NEW t \in told, t.via \in {"corr", "feedback", "sweep"}
                     PROVE  HostId(t.of) # corr'[i].host
          <5>1. DOMAIN corr' = 1..CMDCORR_MAX
            BY <3>5 DEF CorrOK
          <5> QED BY <5>1, <1>u DEF EntryOutstanding
        <4>1. t.of \in 1..Len(reqs)
          BY <1>p DEF ToldPart, ToldOK
        <4>2. t.of # n /\ t.of \in Nat
          BY <4>1, <1>1, <1>p
        <4>3. CASE corr'[i].host = HostId(n)
          BY <4>2, <4>3, <1>2, HostIdInj
        <4>4. CASE corr[i] = corr'[i]
          <5>1. DOMAIN corr = 1..CMDCORR_MAX
            BY <1>p DEF CorrPart, CorrOK
          <5> QED BY <4>4, <5>1, <1>p DEF CorrPart, EntryOutstanding
        <4> QED BY <4>3, <4>4, <3>5
      <3> QED BY <3>5, <3>6 DEF CorrPart
    <2>10. Inv(at2, num2)'
      BY <2>3, <2>4, <2>5, <2>6, <2>7, <2>8, <2>9 DEF Inv
    <2> QED BY <2>10, InvGives
  <1>6. CASE ~cycleMode
    <2>u. /\ UNCHANGED <<eng, corr, origSeq>>
          /\ origQ' = IF Len(origQ) < OrigLen THEN Append(origQ, c) ELSE origQ
      BY <1>6, <1>c, <1>n DEF HostOriginate, corrVars
    <2>1. PICK at2 \in AtFun, num2 \in NumFun :
               OnlyMoves(at, num, at2, num2, n) /\ at2[n] = "orig" /\ num2[n] = 0
      <3>1. "orig" \in Places /\ 0 \in Nat /\ n \in 1..MaxReqs
        BY <1>1 DEF Places
      <3> QED BY <3>1, Moving
    <2>2. /\ \A m \in 1..Len(reqs) : at2[m] = at[m] /\ num2[m] = num[m]
          /\ Keeps(reqs, at, num, at2, num2, "cmd") /\ Keeps(reqs, at, num, at2, num2, "job")
          /\ Keeps(reqs, at, num, at2, num2, "eng") /\ Keeps(reqs, at, num, at2, num2, "orig")
          /\ Keeps(reqs, at, num, at2, num2, "out") /\ Keeps(reqs, at, num, at2, num2, "send")
          /\ NumKeeps(reqs, num, num2) /\ EntryPlaces(reqs, at, at2)
      BY <1>p, <1>n, <2>1, FreshKeeps
    <2>3. ReqsPart(at2)' /\ CtlPart'
      BY <1>1, <2>2, <1>u, <1>p, CtlFrame
    <2>4. CmdPart(at2, num2)' /\ JobPart(at2, num2)' /\ EngPart(at2, num2)'
      BY <1>u, <2>u, <1>p, <1>1, <2>2, CmdFrame, JobFrame, EngFrame
    <2>5. OrigPart(at2, num2)'
      <3>1. QueueOK(reqs', at2, num2, origQ)
        BY <1>p, <1>q, <1>1, <2>2, QueueKeeps DEF Grown
      <3>2. origSeq <= Len(reqs') /\ origSeq <= origSeq
        BY <1>q, <1>1, <1>n, <1>p
      <3>3. NumOK(reqs', origSeq, num2)
        BY <3>2, <1>q, <1>1, <1>2, <2>1, <2>2, OrigNumber, ZenonT(60) DEF Grown
      <3>4. CASE Len(origQ) < OrigLen
        <4>1. c \in StagedCmds(reqs') /\ origQ \in Seq(StagedCmds(reqs'))
          BY <1>3, <1>4, <3>1 DEF StagedCmds, QueueOK
        <4>2. /\ origQ' \in Seq(StagedCmds(reqs')) /\ Len(origQ') = Len(origQ) + 1
              /\ origQ'[Len(origQ) + 1] = c
              /\ \A i \in 1..Len(origQ) : origQ'[i] = origQ[i]
              /\ 1..Len(origQ') = 1..Len(origQ) \cup {Len(origQ) + 1}
          BY <4>1, <3>4, <2>u, <1>q
        <4>3. Waiting(reqs', at2, num2, c)
          BY <1>3, <1>4, <2>1 DEF Waiting
        <4>4. \A i \in 1..Len(origQ) : origQ[i].of \in 1..Len(reqs)
          BY <1>q DEF QueueOK, Waiting, Staged
        <4>5. \A i \in 1..Len(origQ') : Waiting(reqs', at2, num2, origQ'[i])
          BY <4>2, <4>3, <3>1 DEF QueueOK
        <4>6. Distinct(origQ')
          <5>1. \A i \in 1..Len(origQ) : origQ'[i].of # origQ'[Len(origQ) + 1].of
            BY <4>2, <4>4, <1>1, <1>3
          <5>2. \A i, j \in 1..Len(origQ) : origQ'[i].of = origQ'[j].of => i = j
            BY <4>2, <1>q DEF QueueOK, Distinct
          <5> QED BY <4>2, <5>1, <5>2 DEF Distinct
        <4>7. Len(origQ') <= OrigLen /\ origSeq + Len(origQ') <= Len(reqs')
          <5>1. Len(reqs') = Len(reqs) + 1 /\ Len(origQ') = Len(origQ) + 1 /\ OrigLen \in Nat
            BY <4>2, <1>1, <1>n, Consts
          <5> QED BY <5>1, <3>4, <1>q, <1>p
        <4> QED BY <4>2, <4>5, <4>6, <4>7, <3>3, <2>u, <1>q DEF OrigPart, QueueOK
      <3>5. CASE ~(Len(origQ) < OrigLen)
        <4>1. origQ' = origQ /\ origSeq + Len(origQ) <= Len(reqs')
          BY <3>5, <2>u, <1>q, <1>1, <1>n, <1>p
        <4> QED BY <4>1, <3>1, <3>3, <2>u, <1>q DEF OrigPart
      <3> QED BY <3>4, <3>5
    <2>6. ListPart(at2, num2)' /\ NodePart(num2)'
      BY <1>p, <1>1, <2>2, <1>u, ListFrame, NodeFrame
    <2>7. CorrPart(at2, num2)' /\ ToldPart'
      BY <1>p, <1>1, <2>2, <1>u, <2>u, CorrFrame, ToldFrame
    <2>8. Inv(at2, num2)'
      BY <2>3, <2>4, <2>5, <2>6, <2>7 DEF Inv
    <2> QED BY <2>8, InvGives
  <1> QED BY <1>5, <1>6

-----------------------------------------------------------------------------
(* The lists of the cycle.                                                 *)
LEMMA ListCons ==
    ASSUME NEW rq \in Requests, NEW at, NEW num, NEW p, NEW s, ListOK(rq, at, num, s, p),
           NEW x, Placed(rq, at, num, x, p), \A i \in 1..Len(s) : s[i].of # x.of
    PROVE  ListOK(rq, at, num, <<x>> \o s, p)
  <1>1. x \in StagedCmds(rq) /\ s \in Seq(StagedCmds(rq)) /\ Len(s) \in Nat
    BY DEF Placed, Staged, StagedCmds, ListOK
  <1>2. PICK t : t = <<x>> \o s
    OBVIOUS
  <1>3. /\ t \in Seq(StagedCmds(rq)) /\ Len(t) = Len(s) + 1 /\ t[1] = x
        /\ \A i \in 1..Len(t) : i = 1 \/ (i - 1 \in 1..Len(s) /\ t[i] = s[i - 1])
    BY <1>1, <1>2
  <1>4. \A i \in 1..Len(t) : Placed(rq, at, num, t[i], p)
    BY <1>3 DEF ListOK
  <1>5. Distinct(t)
    <2> SUFFICES ASSUME NEW i \in 1..Len(t), NEW j \in 1..Len(t), t[i].of = t[j].of PROVE i = j
      BY DEF Distinct
    <2>0. i \in Nat /\ j \in Nat
      BY <1>1, <1>3
    <2>1. CASE i = 1 /\ j = 1
      BY <2>1
    <2>2. CASE i = 1 /\ j # 1
      BY <2>2, <1>3
    <2>3. CASE i # 1 /\ j = 1
      BY <2>3, <1>3
    <2>4. CASE i # 1 /\ j # 1
      <3>1. i - 1 = j - 1
        BY <2>4, <1>3 DEF ListOK, Distinct
      <3> QED BY <3>1, <2>0
    <2> QED BY <2>1, <2>2, <2>3, <2>4
  <1> QED BY <1>2, <1>3, <1>4, <1>5 DEF ListOK

LEMMA TailFacts ==
    ASSUME NEW S, NEW s \in Seq(S), s # << >>
    PROVE  /\ Tail(s) \in Seq(S) /\ Len(Tail(s)) = Len(s) - 1 /\ Len(s) \in Nat \ {0}
           /\ Head(s) = s[1] /\ Head(s) \in S
           /\ \A i \in 1..Len(Tail(s)) : i + 1 \in 1..Len(s) /\ Tail(s)[i] = s[i + 1]
  OBVIOUS

LEMMA ListTail ==
    ASSUME NEW rq \in Requests, NEW at, NEW num, NEW p, NEW s, ListOK(rq, at, num, s, p),
           s # << >>
    PROVE  /\ Placed(rq, at, num, Head(s), p)
           /\ \A i \in 1..Len(Tail(s)) : Tail(s)[i].of # Head(s).of
           /\ ListOK(rq, at, num, Tail(s), p)
  <1>1. PICK t : t = Tail(s)
    OBVIOUS
  <1>2. /\ t \in Seq(StagedCmds(rq)) /\ Len(t) = Len(s) - 1 /\ Len(s) \in Nat \ {0}
        /\ Head(s) = s[1]
        /\ \A i \in 1..Len(t) : i \in Nat /\ i + 1 \in 1..Len(s) /\ t[i] = s[i + 1]
    BY <1>1, TailFacts DEF ListOK
  <1>3. 1 \in 1..Len(s) /\ \A i \in 1..Len(t) : i + 1 # 1
    BY <1>2
  <1>4. Placed(rq, at, num, Head(s), p)
    BY <1>2, <1>3 DEF ListOK
  <1>5. \A i \in 1..Len(t) : t[i].of # Head(s).of
    BY <1>2, <1>3 DEF ListOK, Distinct
  <1>6. \A i \in 1..Len(t) : Placed(rq, at, num, t[i], p)
    BY <1>2 DEF ListOK
  <1>7. Distinct(t)
    <2> SUFFICES ASSUME NEW i \in 1..Len(t), NEW j \in 1..Len(t), t[i].of = t[j].of PROVE i = j
      BY DEF Distinct
    <2>1. i + 1 = j + 1 /\ i \in Nat /\ j \in Nat
      BY <1>2 DEF ListOK, Distinct
    <2> QED BY <2>1
  <1> QED BY <1>1, <1>2, <1>4, <1>5, <1>6, <1>7 DEF ListOK

(* Request n moves to place p and keeps its number.                        *)
LEMMA Relocate ==
    ASSUME NEW at \in AtFun, NEW num, NEW n \in 1..MaxReqs, NEW p \in Places
    PROVE  \E at2 \in AtFun : OnlyMoves(at, num, at2, num, n) /\ at2[n] = p
  <1> DEFINE at2 == [at EXCEPT ![n] = p]
  <1>1. at2 \in AtFun /\ at2[n] = p
    BY DEF AtFun
  <1>2. OnlyMoves(at, num, at2, num, n)
    BY DEF AtFun, OnlyMoves
  <1> QED BY <1>1, <1>2

LEMMA MoveGone ==
    ASSUME NEW rq \in Requests, NEW at, NEW num, NEW at2, NEW num2, NEW n,
           OnlyMoves(at, num, at2, num2, n), at[n] # "gone"
    PROVE  \A m \in 1..Len(rq) : at[m] = "gone" => at2[m] = "gone"
  <1>1. Keeps(rq, at, num, at2, num2, "gone")
    BY MoveKeeps
  <1> QED BY <1>1 DEF Keeps

LEMMA MoveEntry ==
    ASSUME NEW rq \in Requests, NEW at, NEW num, NEW at2, NEW num2, NEW n,
           OnlyMoves(at, num, at2, num2, n),
           at[n] \in {"cmd", "orig"} \/ at2[n] \notin {"cmd", "orig"}
    PROVE  EntryPlaces(rq, at, at2)
  <1>1. Len(rq) \in 0..MaxReqs /\ MaxReqs \in Nat
    BY RequestsProps, Consts
  <1>2. \A m \in 1..Len(rq) : m \in 1..MaxReqs
    BY <1>1
  <1> QED BY <1>2 DEF OnlyMoves, EntryPlaces

(* A staged command names a request of the model's range.                  *)
LEMMA StagedOf ==
    ASSUME NEW rq \in Requests, NEW c, Staged(rq, c)
    PROVE  c.of \in 1..Len(rq) /\ c.of \in 1..MaxReqs /\ c.to \in Slaves /\ c \in Command
  <1>1. Len(rq) \in 0..MaxReqs /\ MaxReqs \in Nat
    BY RequestsProps, Consts
  <1>2. c.of \in 1..Len(rq) /\ c \in Command /\ c.to = rq[c.of].to
    BY DEF Staged
  <1>3. c.of \in 1..MaxReqs
    BY <1>1, <1>2
  <1> QED BY <1>2, <1>3, RequestsProps

LEMMA EngineSendStep ==
    ASSUME NEW at \in AtFun, NEW num \in NumFun, Inv(at, num), EngineSend
    PROVE  IInv'
  <1>0. eng # NoCmd /\ outbox' = <<eng>> \o outbox /\ eng' = NoCmd
    BY DEF EngineSend
  <1>u. UNCHANGED <<reqs, told, pending, cmd, origQ, origSeq, corr, st, job, cyc, sending,
                    cursor, rx, appq, txq, ran>>
    BY DEF EngineSend, hostVars, cmdVars, busVars, nodeVars
  <1>p. /\ ReqsPart(at) /\ CtlPart /\ CmdPart(at, num) /\ JobPart(at, num) /\ EngPart(at, num)
        /\ OrigPart(at, num) /\ ListPart(at, num) /\ NodePart(num) /\ CorrPart(at, num)
        /\ ToldPart /\ reqs \in Requests
    BY Parts
  <1>g. Grown /\ RanKeeps(reqs, ran, ran') /\ NumKeeps(reqs, num, num)
    BY <1>p, <1>u, SameReqs, SameKeeps
  <1>1. Placed(reqs, at, num, eng, "eng") /\ Staged(reqs, eng) /\ at[eng.of] = "eng"
    BY <1>0, <1>p DEF EngPart, Placed
  <1>2. PICK n : n = eng.of
    OBVIOUS
  <1>3. n \in 1..MaxReqs /\ at[n] = "eng"
    BY <1>1, <1>2, <1>p, StagedOf
  <1>4. PICK at2 \in AtFun : OnlyMoves(at, num, at2, num, n) /\ at2[n] = "out"
    BY <1>3, Relocate DEF Places
  <1>5. /\ Keeps(reqs, at, num, at2, num, "cmd") /\ Keeps(reqs, at, num, at2, num, "job")
        /\ Keeps(reqs, at, num, at2, num, "orig")
        /\ Keeps(reqs, at, num, at2, num, "out") /\ Keeps(reqs, at, num, at2, num, "send")
    BY <1>p, <1>3, <1>4, MoveKeeps
  <1>6. /\ EntryPlaces(reqs, at, at2)
        /\ \A m \in 1..Len(reqs) : at[m] = "gone" => at2[m] = "gone"
    <2>1. at[n] # "gone" /\ at2[n] \notin {"cmd", "orig"}
      BY <1>3, <1>4
    <2> QED BY <1>p, <1>4, <2>1, MoveEntry, MoveGone
  <1>7. ReqsPart(at2)' /\ CtlPart' /\ ToldPart' /\ NodePart(num)'
    BY <1>p, <1>g, <1>u, <1>6, ReqsFrame, CtlFrame, ToldFrame, NodeFrame
  <1>8. CmdPart(at2, num)' /\ JobPart(at2, num)' /\ OrigPart(at2, num)' /\ CorrPart(at2, num)'
    BY <1>p, <1>g, <1>u, <1>5, <1>6, CmdFrame, JobFrame, OrigFrame, CorrFrame
  <1>9. EngPart(at2, num)'
    BY <1>0 DEF EngPart
  <1>10. ListPart(at2, num)'
    <2>1. ListOK(reqs, at2, num, outbox, "out") /\ ListOK(reqs, at2, num, sending, "send")
      BY <1>p, <1>g, <1>5, <1>u, ListKeeps DEF ListPart, Grown
    <2>2. Placed(reqs, at2, num, eng, "out")
      BY <1>1, <1>2, <1>4 DEF Placed
    <2>3. \A i \in 1..Len(outbox) : outbox[i].of # eng.of
      BY <1>1, <1>p DEF ListPart, ListOK, Placed
    <2>4. ListOK(reqs, at2, num, <<eng>> \o outbox, "out")
      BY <2>1, <2>2, <2>3, <1>p, ListCons
    <2> QED BY <2>1, <2>4, <1>0, <1>u DEF ListPart
  <1>11. Inv(at2, num)'
    BY <1>7, <1>8, <1>9, <1>10 DEF Inv
  <1> QED BY <1>11, InvGives

(* Steps that move no request.                                             *)
LEMMA AdminStep ==
    ASSUME NEW at \in AtFun, NEW num \in NumFun, Inv(at, num),
           SwitchMode \/ UplinkEnter \/ ReloadRoster
    PROVE  IInv'
  <1>u. /\ UNCHANGED <<reqs, told, cmd, origQ, origSeq, corr, eng, st, job, cyc, sending,
                       cursor, rx, appq, txq, ran, outbox>>
        /\ pending' = pending \/ pending' = FALSE
    BY DEF SwitchMode, UplinkEnter, ReloadRoster, hostVars, cmdVars, corrVars, busVars, nodeVars
  <1>p. /\ ReqsPart(at) /\ CtlPart /\ CmdPart(at, num) /\ JobPart(at, num) /\ EngPart(at, num)
        /\ OrigPart(at, num) /\ ListPart(at, num) /\ NodePart(num) /\ CorrPart(at, num)
        /\ ToldPart /\ reqs \in Requests
    BY Parts
  <1>g. Grown /\ RanKeeps(reqs, ran, ran') /\ NumKeeps(reqs, num, num)
    BY <1>p, <1>u, SameReqs, SameKeeps
  <1>5. /\ Keeps(reqs, at, num, at, num, "cmd") /\ Keeps(reqs, at, num, at, num, "job")
        /\ Keeps(reqs, at, num, at, num, "eng") /\ Keeps(reqs, at, num, at, num, "orig")
        /\ Keeps(reqs, at, num, at, num, "out") /\ Keeps(reqs, at, num, at, num, "send")
        /\ EntryPlaces(reqs, at, at)
    BY SameKeeps
  <1>7. ReqsPart(at)' /\ CtlPart' /\ ToldPart' /\ NodePart(num)' /\ ListPart(at, num)'
    BY <1>p, <1>g, <1>u, <1>5, ReqsFrame, CtlFrame, ToldFrame, NodeFrame, ListFrame
  <1>8. JobPart(at, num)' /\ OrigPart(at, num)' /\ CorrPart(at, num)' /\ EngPart(at, num)'
    BY <1>p, <1>g, <1>u, <1>5, JobFrame, OrigFrame, CorrFrame, EngFrame
  <1>9. CmdPart(at, num)'
    <2>1. CASE pending' = pending
      BY <2>1, <1>u, <1>p, <1>g, <1>5, CmdFrame
    <2>2. CASE pending' = FALSE
      BY <2>2, <1>u, <1>p, <1>g, CmdWithdrawn
    <2> QED BY <2>1, <2>2, <1>u
  <1>10. Inv(at, num)'
    BY <1>7, <1>8, <1>9 DEF Inv
  <1> QED BY <1>10, InvGives

-----------------------------------------------------------------------------
(* The slave's queues.                                                     *)
LEMMA QueueProps ==
    ASSUME NEW S, NEW q \in Seq(S), Len(q) <= NODE_TXQ_LEN, NEW r \in S
    PROVE  Queue(q, r) \in Seq(S) /\ Len(Queue(q, r)) <= NODE_TXQ_LEN
  <1>1. NODE_TXQ_LEN \in Nat /\ Len(q) \in Nat
    BY Consts
  <1> QED BY <1>1 DEF Queue

LEMMA ReplySets ==
    ASSUME NEW rq, NEW rn, NEW num, NEW a
    PROVE  Replies(rq, rn, num, a) \subseteq Reply
  BY DEF Replies

LEMMA NodeEngineStep ==
    ASSUME NEW at \in AtFun, NEW num \in NumFun, Inv(at, num), NEW a \in Slaves, NodeEngine(a)
    PROVE  IInv'
  <1>u. UNCHANGED <<reqs, told, pending, cmd, origQ, origSeq, corr, eng, st, job, cyc, sending,
                    cursor, rx, ran, outbox>>
    BY DEF NodeEngine, hostVars, cmdVars, corrVars, busVars
  <1>p. /\ ReqsPart(at) /\ CtlPart /\ CmdPart(at, num) /\ JobPart(at, num) /\ EngPart(at, num)
        /\ OrigPart(at, num) /\ ListPart(at, num) /\ NodePart(num) /\ CorrPart(at, num)
        /\ ToldPart /\ reqs \in Requests
    BY Parts
  <1>g. Grown /\ RanKeeps(reqs, ran, ran') /\ NumKeeps(reqs, num, num)
    BY <1>p, <1>u, SameReqs, SameKeeps
  <1>5. /\ Keeps(reqs, at, num, at, num, "cmd") /\ Keeps(reqs, at, num, at, num, "job")
        /\ Keeps(reqs, at, num, at, num, "eng") /\ Keeps(reqs, at, num, at, num, "orig")
        /\ Keeps(reqs, at, num, at, num, "out") /\ Keeps(reqs, at, num, at, num, "send")
        /\ EntryPlaces(reqs, at, at)
    BY SameKeeps
  <1>6. ReqsPart(at)' /\ CtlPart' /\ ToldPart' /\ ListPart(at, num)' /\ CmdPart(at, num)'
    BY <1>p, <1>g, <1>u, <1>5, ReqsFrame, CtlFrame, ToldFrame, ListFrame, CmdFrame
  <1>7. JobPart(at, num)' /\ OrigPart(at, num)' /\ CorrPart(at, num)' /\ EngPart(at, num)'
    BY <1>p, <1>g, <1>u, <1>5, JobFrame, OrigFrame, CorrFrame, EngFrame
  <1>8. NodePart(num)'
    <2> DEFINE R(b) == Replies(reqs, ran, num, b)
    <2>0. /\ appq \in [Slaves -> Seq(Reply)] /\ txq \in [Slaves -> Seq(Reply)]
          /\ rx \in Seq(Frames(reqs, ran, num))
          /\ \A b \in Slaves : /\ appq[b] \in Seq(R(b)) /\ txq[b] \in Seq(R(b))
                               /\ Len(txq[b]) <= NODE_TXQ_LEN /\ R(b) \subseteq Reply
      BY <1>p, ReplySets DEF NodePart
    <2> HIDE DEF R
    <2>1. /\ appq[a] # << >> /\ appq' = [appq EXCEPT ![a] = Tail(appq[a])]
          /\ txq' = [txq EXCEPT ![a] = Queue(txq[a], Head(appq[a]))]
      BY DEF NodeEngine
    <2>2. Tail(appq[a]) \in Seq(R(a)) /\ Head(appq[a]) \in R(a)
      BY <2>0, <2>1, TailFacts
    <2>3. /\ Queue(txq[a], Head(appq[a])) \in Seq(R(a))
          /\ Len(Queue(txq[a], Head(appq[a]))) <= NODE_TXQ_LEN
      BY <2>0, <2>2, QueueProps
    <2>4. /\ Tail(appq[a]) \in Seq(Reply) /\ Queue(txq[a], Head(appq[a])) \in Seq(Reply)
      BY <2>0, <2>2, <2>3, SeqMonotonic
    <2>5. /\ appq' \in [Slaves -> Seq(Reply)] /\ txq' \in [Slaves -> Seq(Reply)]
          /\ \A b \in Slaves : /\ appq'[b] \in Seq(R(b)) /\ txq'[b] \in Seq(R(b))
                               /\ Len(txq'[b]) <= NODE_TXQ_LEN
      BY <2>0, <2>1, <2>2, <2>3, <2>4
    <2> QED BY <2>0, <2>5, <1>u DEF NodePart, R
  <1>9. Inv(at, num)'
    BY <1>6, <1>7, <1>8 DEF Inv
  <1> QED BY <1>9, InvGives

(* bus_send of DATA: the request is executed, or it is lost; in both cases *)
(* it is gone.                                                             *)
LEMMA SendDataProps ==
    ASSUME NEW at \in AtFun, NEW num \in NumFun, Inv(at, num), NEW c, NEW p,
           Placed(reqs, at, num, c, p), p # "gone", SendData(c), UNCHANGED <<reqs, rx>>,
           NEW at2 \in AtFun, OnlyMoves(at, num, at2, num, c.of), at2[c.of] = "gone"
    PROVE  ReqsPart(at2)' /\ RanKeeps(reqs, ran, ran') /\ NodePart(num)'
  <1>p. ReqsPart(at) /\ NodePart(num) /\ reqs \in Requests /\ Len(reqs) \in 0..MaxReqs
    BY Parts
  <1>c. /\ Staged(reqs, c) /\ at[c.of] = p /\ c.id = num[c.of] /\ c.id # 0
        /\ c.of \in 1..Len(reqs) /\ c.of \in 1..MaxReqs /\ c.to \in Slaves /\ c \in Command
        /\ c.to = reqs[c.of].to
    <2>1. Staged(reqs, c) /\ at[c.of] = p /\ c.id = num[c.of] /\ c.id # 0
      BY DEF Placed
    <2> QED BY <2>1, <1>p, StagedOf DEF Staged
  <1>1. \A m \in 1..Len(reqs) : at[m] = "gone" => at2[m] = "gone"
    BY <1>p, <1>c, MoveGone
  <1>2. CASE OnData(c)
    <2>0. ran \in Seq(Nat) /\ Len(ran) = Len(reqs) /\ ran[c.of] = 0
      BY <1>p, <1>c DEF ReqsPart
    <2>1. ran' = [ran EXCEPT ![c.of] = ran[c.of] + 1]
      BY <1>2 DEF OnData
    <2>2. /\ ran' \in Seq(Nat) /\ Len(ran') = Len(reqs) /\ ran'[c.of] = 1
          /\ \A m \in 1..Len(reqs) : m # c.of => ran'[m] = ran[m]
      BY <2>0, <2>1, <1>c
    <2>3. RanKeeps(reqs, ran, ran')
      BY <2>2 DEF RanKeeps
    <2>4. ReqsPart(at2)'
      BY <2>2, <1>1, <1>p DEF ReqsPart
    <2>5. NodePart(num)'
      <3> DEFINE R(b) == Replies(reqs, ran', num, b)
      <3>g. Grown /\ NumKeeps(reqs, num, num)
        BY <1>p, SameReqs, SameKeeps
      <3>0. /\ appq \in [Slaves -> Seq(Reply)] /\ txq \in [Slaves -> Seq(Reply)]
            /\ rx \in Seq(Frames(reqs, ran', num))
            /\ \A b \in Slaves : /\ appq[b] \in Seq(R(b)) /\ txq[b] \in Seq(R(b))
                                 /\ Len(txq[b]) <= NODE_TXQ_LEN /\ R(b) \subseteq Reply
        <4>1. /\ \A b \in Slaves : Replies(reqs, ran, num, b) \subseteq R(b)
              /\ Frames(reqs, ran, num) \subseteq Frames(reqs, ran', num)
          BY <1>p, <2>3, <3>g, RepliesKeep DEF Grown
        <4>2. \A b \in Slaves : R(b) \subseteq Reply
          BY ReplySets
        <4> QED BY <4>1, <4>2, <1>p, SeqMonotonic DEF NodePart
      <3>1. ReplyTo(c) \in R(c.to)
        <4>1. ReplyTo(c) \in Reply
          BY <1>c DEF ReplyTo, Reply, Command
        <4>2. ReplyTo(c).of = c.of /\ ReplyTo(c).id = c.id
          BY DEF ReplyTo
        <4> QED BY <4>1, <4>2, <1>c, <2>2 DEF Replies
      <3> HIDE DEF R
      <3>2. CASE ToEngine(c)
        <4>1. appq' = [appq EXCEPT ![c.to] = Append(appq[c.to], ReplyTo(c))] /\ txq' = txq
          BY <1>2, <3>2 DEF OnData
        <4>2. Append(appq[c.to], ReplyTo(c)) \in Seq(R(c.to))
          BY <3>0, <3>1, <1>c, AppendProperties
        <4>3. Append(appq[c.to], ReplyTo(c)) \in Seq(Reply)
          BY <4>2, <3>0, <1>c, SeqMonotonic
        <4>4. appq' \in [Slaves -> Seq(Reply)] /\ \A b \in Slaves : appq'[b] \in Seq(R(b))
          BY <3>0, <4>1, <4>2, <4>3, <1>c
        <4> QED BY <4>1, <4>4, <3>0 DEF NodePart, R
      <3>3. CASE ~ToEngine(c)
        <4>1. txq' = [txq EXCEPT ![c.to] = Queue(txq[c.to], ReplyTo(c))] /\ appq' = appq
          BY <1>2, <3>3 DEF OnData
        <4>2. /\ Queue(txq[c.to], ReplyTo(c)) \in Seq(R(c.to))
              /\ Len(Queue(txq[c.to], ReplyTo(c))) <= NODE_TXQ_LEN
          BY <3>0, <3>1, <1>c, QueueProps
        <4>3. Queue(txq[c.to], ReplyTo(c)) \in Seq(Reply)
          BY <4>2, <3>0, <1>c, SeqMonotonic
        <4>4. /\ txq' \in [Slaves -> Seq(Reply)]
              /\ \A b \in Slaves : txq'[b] \in Seq(R(b)) /\ Len(txq'[b]) <= NODE_TXQ_LEN
          BY <3>0, <4>1, <4>2, <4>3, <1>c
        <4> QED BY <4>1, <4>4, <3>0 DEF NodePart, R
      <3> QED BY <3>2, <3>3
    <2> QED BY <2>3, <2>4, <2>5
  <1>3. CASE UNCHANGED nodeVars
    <2>1. UNCHANGED <<appq, txq, ran>>
      BY <1>3 DEF nodeVars
    <2>2. Grown /\ NumKeeps(reqs, num, num) /\ RanKeeps(reqs, ran, ran')
      BY <2>1, <1>p, SameReqs, SameKeeps
    <2> QED BY <2>1, <2>2, <1>p, <1>1, ReqsFrame, NodeFrame
  <1> QED BY <1>2, <1>3 DEF SendData

LEMMA CycleSendStep ==
    ASSUME NEW at \in AtFun, NEW num \in NumFun, Inv(at, num), CycleSend
    PROVE  IInv'
  <1>0. sending # << >> /\ SendData(Head(sending)) /\ sending' = Tail(sending)
    BY DEF CycleSend
  <1>u. UNCHANGED <<reqs, told, pending, cmd, origQ, origSeq, corr, eng, st, job, cyc, cursor,
                    rx, outbox>>
    BY DEF CycleSend, hostVars, cmdVars, corrVars
  <1>p. /\ ReqsPart(at) /\ CtlPart /\ CmdPart(at, num) /\ JobPart(at, num) /\ EngPart(at, num)
        /\ OrigPart(at, num) /\ ListPart(at, num) /\ CorrPart(at, num)
        /\ ToldPart /\ reqs \in Requests
    BY Parts
  <1>1. PICK c : c = Head(sending)
    OBVIOUS
  <1>2. /\ Placed(reqs, at, num, c, "send") /\ ListOK(reqs, at, num, Tail(sending), "send")
        /\ \A i \in 1..Len(Tail(sending)) : Tail(sending)[i].of # c.of
    BY <1>0, <1>1, <1>p, ListTail DEF ListPart
  <1>3. at[c.of] = "send" /\ Staged(reqs, c) /\ c.of \in 1..MaxReqs
    BY <1>2, <1>p, StagedOf DEF Placed
  <1>4. PICK at2 \in AtFun : OnlyMoves(at, num, at2, num, c.of) /\ at2[c.of] = "gone"
    BY <1>3, Relocate DEF Places
  <1>5. /\ Keeps(reqs, at, num, at2, num, "cmd") /\ Keeps(reqs, at, num, at2, num, "job")
        /\ Keeps(reqs, at, num, at2, num, "eng") /\ Keeps(reqs, at, num, at2, num, "orig")
        /\ Keeps(reqs, at, num, at2, num, "out")
    BY <1>p, <1>3, <1>4, MoveKeeps
  <1>6. EntryPlaces(reqs, at, at2)
    BY <1>p, <1>4, MoveEntry
  <1>7. ReqsPart(at2)' /\ RanKeeps(reqs, ran, ran') /\ NodePart(num)'
    <2>1. SendData(c)
      BY <1>0, <1>1
    <2> QED BY <2>1, <1>2, <1>4, <1>u, SendDataProps
  <1>g. Grown /\ NumKeeps(reqs, num, num)
    BY <1>p, <1>u, SameReqs, SameKeeps
  <1>8. CtlPart' /\ ToldPart' /\ CmdPart(at2, num)' /\ JobPart(at2, num)'
    BY <1>p, <1>g, <1>u, <1>5, <1>7, CtlFrame, ToldFrame, CmdFrame, JobFrame
  <1>9. OrigPart(at2, num)' /\ CorrPart(at2, num)' /\ EngPart(at2, num)'
    BY <1>p, <1>g, <1>u, <1>5, <1>6, OrigFrame, CorrFrame, EngFrame
  <1>10. ListPart(at2, num)'
    <2>1. ListOK(reqs, at2, num, outbox, "out")
      BY <1>p, <1>g, <1>5, <1>u, ListKeeps DEF ListPart, Grown
    <2>2. \A i \in 1..Len(Tail(sending)) : Placed(reqs, at2, num, Tail(sending)[i], "send")
      <3> SUFFICES ASSUME NEW i \in 1..Len(Tail(sending))
                   PROVE  Placed(reqs, at2, num, Tail(sending)[i], "send")
        OBVIOUS
      <3>1. PICK d : d = Tail(sending)[i]
        OBVIOUS
      <3>2. Placed(reqs, at, num, d, "send") /\ d.of # c.of
        BY <3>1, <1>2 DEF ListOK
      <3>3. d.of \in 1..MaxReqs
        BY <3>2, <1>p, StagedOf DEF Placed
      <3>4. at2[d.of] = at[d.of]
        BY <3>2, <3>3, <1>4 DEF OnlyMoves
      <3> QED BY <3>1, <3>2, <3>4 DEF Placed
    <2>3. ListOK(reqs, at2, num, Tail(sending), "send")
      BY <2>2, <1>2 DEF ListOK
    <2> QED BY <2>1, <2>3, <1>0, <1>u DEF ListPart
  <1>11. Inv(at2, num)'
    BY <1>7, <1>8, <1>9, <1>10 DEF Inv
  <1> QED BY <1>11, InvGives

-----------------------------------------------------------------------------
(* The per-slot arbiter.                                                   *)
LEMMA TakeOrigStep ==
    ASSUME NEW at \in AtFun, NEW num \in NumFun, Inv(at, num), Apart, TakeOrig
    PROVE  IInv'
  <1>0. /\ origQ # << >> /\ origSeq' = origSeq + 1 /\ origQ' = Tail(origQ) /\ st = "top"
        /\ cmd' = [Head(origQ) EXCEPT !.id = origSeq + 1] /\ pending' = TRUE /\ st' = "copy"
    BY DEF TakeOrig
  <1>u. UNCHANGED <<reqs, told, corr, eng, job, cyc, sending, cursor, rx, appq, txq, ran, outbox>>
    BY DEF TakeOrig, hostVars, corrVars, nodeVars
  <1>p. /\ ReqsPart(at) /\ CtlPart /\ JobPart(at, num) /\ EngPart(at, num)
        /\ OrigPart(at, num) /\ ListPart(at, num) /\ NodePart(num) /\ CorrPart(at, num)
        /\ ToldPart /\ reqs \in Requests /\ Len(reqs) \in Nat
    BY Parts
  <1>q. /\ Len(origQ) \in Nat /\ origSeq \in Nat /\ origSeq + Len(origQ) <= Len(reqs)
        /\ Len(origQ) <= OrigLen /\ QueueOK(reqs, at, num, origQ) /\ NumOK(reqs, origSeq, num)
        /\ origQ \in Seq(StagedCmds(reqs))
    BY <1>p DEF OrigPart, QueueOK
  <1>t. /\ Tail(origQ) \in Seq(StagedCmds(reqs)) /\ Len(Tail(origQ)) = Len(origQ) - 1
        /\ Len(origQ) \in Nat \ {0} /\ Head(origQ) = origQ[1] /\ 1 \in 1..Len(origQ)
        /\ \A i \in 1..Len(Tail(origQ)) : /\ i + 1 \in 1..Len(origQ) /\ i + 1 # 1 /\ i \in Nat
                                          /\ Tail(origQ)[i] = origQ[i + 1]
    <2>1. /\ Tail(origQ) \in Seq(StagedCmds(reqs)) /\ Len(Tail(origQ)) = Len(origQ) - 1
          /\ Len(origQ) \in Nat \ {0} /\ Head(origQ) = origQ[1]
          /\ \A i \in 1..Len(Tail(origQ)) : /\ i + 1 \in 1..Len(origQ)
                                            /\ Tail(origQ)[i] = origQ[i + 1]
      BY <1>0, <1>q, TailFacts
    <2>2. \A i \in 1..Len(Tail(origQ)) : i + 1 # 1 /\ i \in Nat
      BY <2>1
    <2> QED BY <2>1, <2>2
  <1>c. PICK c : c = Head(origQ)
    OBVIOUS
  <1>1. Waiting(reqs, at, num, c) /\ Staged(reqs, c)
    BY <1>c, <1>t, <1>q DEF QueueOK, Waiting
  <1>n. PICK n : n = c.of
    OBVIOUS
  <1>2. /\ n \in 1..Len(reqs) /\ n \in 1..MaxReqs /\ at[n] = "orig" /\ num[n] = 0
        /\ reqs[n].kind = "orig" /\ c \in Command /\ c.orig
    <2>1. n \in 1..Len(reqs) /\ n \in 1..MaxReqs /\ c \in Command
      BY <1>1, <1>n, <1>p, StagedOf
    <2>2. c.orig = (reqs[n].kind = "orig") /\ c.orig
      BY <1>1, <1>n DEF Waiting, Staged
    <2> QED BY <2>1, <2>2, <1>1, <1>n DEF Waiting
  <1>3. PICK at2 \in AtFun, num2 \in NumFun :
             OnlyMoves(at, num, at2, num2, n) /\ at2[n] = "cmd" /\ num2[n] = origSeq + 1
    <2>1. "cmd" \in Places /\ origSeq + 1 \in Nat
      BY <1>q DEF Places
    <2> QED BY <1>2, <2>1, Moving
  <1>4. /\ Keeps(reqs, at, num, at2, num2, "job") /\ Keeps(reqs, at, num, at2, num2, "eng")
        /\ Keeps(reqs, at, num, at2, num2, "out") /\ Keeps(reqs, at, num, at2, num2, "send")
    BY <1>p, <1>2, <1>3, MoveKeeps
  <1>5. /\ EntryPlaces(reqs, at, at2)
        /\ \A m \in 1..Len(reqs) : at[m] = "gone" => at2[m] = "gone"
    <2>1. at[n] # "gone" /\ at[n] \in {"cmd", "orig"}
      BY <1>2
    <2> QED BY <1>p, <1>3, <2>1, MoveEntry, MoveGone
  <1>6. /\ NumKeeps(reqs, num, num2)
        /\ \A m \in 1..Len(reqs) : m # n => num2[m] = num[m] /\ at2[m] = at[m]
    <2>1. \A m \in 1..Len(reqs) : m \in 1..MaxReqs
      BY <1>p, RequestsProps, Consts
    <2> QED BY <2>1, <1>2, <1>3 DEF NumKeeps, OnlyMoves
  <1>g. Grown /\ RanKeeps(reqs, ran, ran')
    BY <1>p, <1>u, SameReqs, SameKeeps
  <1>7. ReqsPart(at2)' /\ ToldPart' /\ NodePart(num2)'
    BY <1>p, <1>g, <1>u, <1>5, <1>6, ReqsFrame, ToldFrame, NodeFrame
  <1>8. CtlPart'
    BY <1>p, <1>u, <1>0 DEF CtlPart
  <1>9. CorrPart(at2, num2)' /\ EngPart(at2, num2)' /\ ListPart(at2, num2)'
    BY <1>p, <1>g, <1>u, <1>4, <1>5, <1>6, CorrFrame, EngFrame, ListFrame
  <1>10. JobPart(at2, num2)'
    BY <1>p, <1>u, <1>0 DEF JobPart
  <1>11. CmdPart(at2, num2)'
    <2>1. PICK d : d = [c EXCEPT !.id = origSeq + 1]
      OBVIOUS
    <2>2. cmd' = d
      BY <2>1, <1>0, <1>c
    <2>3. /\ d \in Command /\ d.of = n /\ d.to = c.to /\ d.host = c.host /\ d.id = origSeq + 1
          /\ d.orig = c.orig
      <3>1. origSeq + 1 \in Nat
        BY <1>q
      <3>2. /\ d.of = c.of /\ d.to = c.to /\ d.host = c.host /\ d.id = origSeq + 1
            /\ d.orig = c.orig /\ d \in Command
        BY <2>1, <1>2, <3>1 DEF Command
      <3> QED BY <3>2, <1>n
    <2>4. Staged(reqs, d)
      BY <2>3, <1>1, <1>2, <1>n DEF Staged
    <2>5. Placed(reqs, at2, num2, d, "cmd")
      BY <2>3, <2>4, <1>3, <1>q DEF Placed
    <2>6. d # NoCmd
      BY <2>3, Consts
    <2> QED BY <2>2, <2>4, <2>5, <2>6, <1>0, <1>u DEF CmdPart
  <1>12. OrigPart(at2, num2)'
    <2>1. \A i \in 1..Len(Tail(origQ)) : Tail(origQ)[i].of # n
      BY <1>t, <1>c, <1>n, <1>q DEF QueueOK, Distinct
    <2>2. \A i \in 1..Len(Tail(origQ)) : Waiting(reqs, at2, num2, Tail(origQ)[i])
      <3> SUFFICES ASSUME NEW i \in 1..Len(Tail(origQ))
                   PROVE  Waiting(reqs, at2, num2, Tail(origQ)[i])
        OBVIOUS
      <3>1. PICK e : e = Tail(origQ)[i]
        OBVIOUS
      <3>2. Waiting(reqs, at, num, e) /\ e.of # n
        BY <3>1, <2>1, <1>t, <1>q DEF QueueOK
      <3>3. e.of \in 1..Len(reqs)
        BY <3>2 DEF Waiting, Staged
      <3> QED BY <3>1, <3>2, <3>3, <1>6 DEF Waiting
    <2>3. Distinct(Tail(origQ))
      <3> SUFFICES ASSUME NEW i \in 1..Len(Tail(origQ)), NEW j \in 1..Len(Tail(origQ)),
                          Tail(origQ)[i].of = Tail(origQ)[j].of
                   PROVE  i = j
        BY DEF Distinct
      <3>1. i + 1 = j + 1 /\ i \in Nat /\ j \in Nat
        BY <1>t, <1>q DEF QueueOK, Distinct
      <3> QED BY <3>1
    <2>4. QueueOK(reqs, at2, num2, Tail(origQ))
      BY <2>2, <2>3, <1>t DEF QueueOK
    <2>5. /\ origSeq + 1 \in Nat /\ origSeq + 1 <= Len(reqs) /\ origSeq <= origSeq + 1
          /\ origSeq < origSeq + 1 /\ origSeq + 1 + Len(Tail(origQ)) <= Len(reqs)
          /\ Len(Tail(origQ)) <= OrigLen
      <3>1. OrigLen \in Nat /\ Len(Tail(origQ)) = Len(origQ) - 1 /\ Len(origQ) \in Nat \ {0}
        BY <1>t, Consts
      <3> QED BY <3>1, <1>q, <1>p
    <2>6. 1..Len(reqs) \subseteq 1..Len(reqs) \cup {n} /\ Extends(reqs, reqs)
      BY <1>p DEF Extends
    <2>7. NumOK(reqs, origSeq + 1, num2)
      BY <2>5, <2>6, <1>p, <1>q, <1>2, <1>3, <1>6, OrigNumber
    <2> QED BY <2>4, <2>5, <2>7, <1>0, <1>u DEF OrigPart
  <1>13. Inv(at2, num2)'
    BY <1>7, <1>8, <1>9, <1>10, <1>11, <1>12 DEF Inv
  <1> QED BY <1>13, InvGives

LEMMA CopyCmdStep ==
    ASSUME NEW at \in AtFun, NEW num \in NumFun, Inv(at, num), CopyCmd
    PROVE  IInv'
  <1>u. UNCHANGED <<reqs, told, pending, cmd, origQ, origSeq, corr, eng, cyc, sending, cursor,
                    rx, appq, txq, ran, outbox>>
    BY DEF CopyCmd, hostVars, cmdVars, corrVars, nodeVars
  <1>0. /\ st \in {"top", "copy"}
        /\ \/ pending /\ st' = "inject" /\ job' = [job EXCEPT !.c = cmd]
           \/ ~pending /\ st' = "sweep" /\ job' = job
    BY DEF CopyCmd
  <1>p. /\ ReqsPart(at) /\ CtlPart /\ CmdPart(at, num) /\ JobPart(at, num) /\ EngPart(at, num)
        /\ OrigPart(at, num) /\ ListPart(at, num) /\ NodePart(num) /\ CorrPart(at, num)
        /\ ToldPart /\ reqs \in Requests
    BY Parts
  <1>g. Grown /\ RanKeeps(reqs, ran, ran') /\ NumKeeps(reqs, num, num)
    BY <1>p, <1>u, SameReqs, SameKeeps
  <1>1. CtlPart'
    BY <1>p, <1>u, <1>0 DEF CtlPart
  <1>2. CASE pending /\ st' = "inject" /\ job' = [job EXCEPT !.c = cmd]
    <2>1. Placed(reqs, at, num, cmd, "cmd")
      BY <1>0, <1>2, <1>p DEF CmdPart, Live
    <2>2. PICK n : n = cmd.of
      OBVIOUS
    <2>3. n \in 1..MaxReqs /\ at[n] = "cmd" /\ Staged(reqs, cmd) /\ cmd \in Command
      BY <2>1, <2>2, <1>p, StagedOf DEF Placed
    <2>4. PICK at2 \in AtFun : OnlyMoves(at, num, at2, num, n) /\ at2[n] = "job"
      BY <2>3, Relocate DEF Places
    <2>5. /\ Keeps(reqs, at, num, at2, num, "eng") /\ Keeps(reqs, at, num, at2, num, "orig")
          /\ Keeps(reqs, at, num, at2, num, "out") /\ Keeps(reqs, at, num, at2, num, "send")
      BY <1>p, <2>3, <2>4, MoveKeeps
    <2>6. /\ EntryPlaces(reqs, at, at2)
          /\ \A m \in 1..Len(reqs) : at[m] = "gone" => at2[m] = "gone"
      <3>1. at[n] # "gone" /\ at[n] \in {"cmd", "orig"}
        BY <2>3
      <3> QED BY <1>p, <2>4, <3>1, MoveEntry, MoveGone
    <2>7. ReqsPart(at2)' /\ ToldPart' /\ NodePart(num)' /\ ListPart(at2, num)'
      BY <1>p, <1>g, <1>u, <2>5, <2>6, ReqsFrame, ToldFrame, NodeFrame, ListFrame
    <2>8. OrigPart(at2, num)' /\ CorrPart(at2, num)' /\ EngPart(at2, num)'
      BY <1>p, <1>g, <1>u, <2>5, <2>6, OrigFrame, CorrFrame, EngFrame
    <2>9. CmdPart(at2, num)'
      BY <1>2, <1>u, <1>p DEF CmdPart, Live
    <2>10. JobPart(at2, num)'
      <3>1. /\ job' \in [c : Command \cup {NoCmd}, tries : 0..CollectTries, heard : BOOLEAN]
            /\ job'.c = cmd
        BY <1>2, <1>p, <2>3 DEF JobPart
      <3>2. Placed(reqs, at2, num, cmd, "job")
        BY <2>1, <2>2, <2>4 DEF Placed
      <3> QED BY <3>1, <3>2, <2>3, <1>2, <1>u DEF JobPart
    <2>11. Inv(at2, num)'
      BY <1>1, <2>7, <2>8, <2>9, <2>10 DEF Inv
    <2> QED BY <2>11, InvGives
  <1>3. CASE ~pending /\ st' = "sweep" /\ job' = job
    <2>1. /\ Keeps(reqs, at, num, at, num, "eng") /\ Keeps(reqs, at, num, at, num, "orig")
          /\ Keeps(reqs, at, num, at, num, "out") /\ Keeps(reqs, at, num, at, num, "send")
          /\ EntryPlaces(reqs, at, at)
      BY SameKeeps
    <2>2. ReqsPart(at)' /\ ToldPart' /\ NodePart(num)' /\ ListPart(at, num)'
      BY <1>p, <1>g, <1>u, <2>1, ReqsFrame, ToldFrame, NodeFrame, ListFrame
    <2>3. OrigPart(at, num)' /\ CorrPart(at, num)' /\ EngPart(at, num)'
      BY <1>p, <1>g, <1>u, <2>1, OrigFrame, CorrFrame, EngFrame
    <2>4. CmdPart(at, num)' /\ JobPart(at, num)'
      BY <1>3, <1>u, <1>p DEF CmdPart, Live, JobPart
    <2>5. Inv(at, num)'
      BY <1>1, <2>2, <2>3, <2>4 DEF Inv
    <2> QED BY <2>5, InvGives
  <1> QED BY <1>0, <1>2, <1>3

LEMMA InjectSendStep ==
    ASSUME NEW at \in AtFun, NEW num \in NumFun, Inv(at, num), InjectSend
    PROVE  IInv'
  <1>0. /\ st = "inject" /\ SendData(job.c) /\ st' = "ack"
        /\ job' = [job EXCEPT !.heard = (ran' # ran)]
    BY DEF InjectSend
  <1>u. UNCHANGED <<reqs, told, pending, cmd, origQ, origSeq, corr, eng, cyc, sending, cursor,
                    rx, outbox>>
    BY DEF InjectSend, hostVars, cmdVars, corrVars
  <1>p. /\ ReqsPart(at) /\ CtlPart /\ CmdPart(at, num) /\ JobPart(at, num) /\ EngPart(at, num)
        /\ OrigPart(at, num) /\ ListPart(at, num) /\ CorrPart(at, num)
        /\ ToldPart /\ reqs \in Requests
    BY Parts
  <1>1. PICK c : c = job.c
    OBVIOUS
  <1>2. Placed(reqs, at, num, c, "job") /\ SendData(c)
    BY <1>0, <1>1, <1>p DEF JobPart
  <1>3. at[c.of] = "job" /\ Staged(reqs, c) /\ c.of \in 1..MaxReqs
    BY <1>2, <1>p, StagedOf DEF Placed
  <1>4. PICK at2 \in AtFun : OnlyMoves(at, num, at2, num, c.of) /\ at2[c.of] = "gone"
    BY <1>3, Relocate DEF Places
  <1>5. /\ Keeps(reqs, at, num, at2, num, "eng") /\ Keeps(reqs, at, num, at2, num, "orig")
        /\ Keeps(reqs, at, num, at2, num, "out") /\ Keeps(reqs, at, num, at2, num, "send")
    BY <1>p, <1>3, <1>4, MoveKeeps
  <1>6. EntryPlaces(reqs, at, at2)
    BY <1>p, <1>4, MoveEntry
  <1>7. ReqsPart(at2)' /\ RanKeeps(reqs, ran, ran') /\ NodePart(num)'
    BY <1>2, <1>4, <1>u, SendDataProps
  <1>g. Grown /\ NumKeeps(reqs, num, num)
    BY <1>p, <1>u, SameReqs, SameKeeps
  <1>8. ToldPart' /\ OrigPart(at2, num)' /\ CorrPart(at2, num)' /\ EngPart(at2, num)'
        /\ ListPart(at2, num)'
    BY <1>p, <1>g, <1>u, <1>5, <1>6, <1>7, ToldFrame, OrigFrame, CorrFrame, EngFrame, ListFrame
  <1>9. CtlPart'
    BY <1>p, <1>u, <1>0 DEF CtlPart
  <1>10. CmdPart(at2, num)'
    BY <1>0, <1>u, <1>p DEF CmdPart, Live
  <1>11. JobPart(at2, num)'
    <2>1. (ran' # ran) \in BOOLEAN
      OBVIOUS
    <2>2. /\ job' \in [c : Command \cup {NoCmd}, tries : 0..CollectTries, heard : BOOLEAN]
          /\ job'.c = job.c
      BY <2>1, <1>0, <1>p DEF JobPart
    <2> QED BY <2>2, <1>0, <1>1, <1>3, <1>u DEF JobPart
  <1>12. Inv(at2, num)'
    BY <1>7, <1>8, <1>9, <1>10, <1>11 DEF Inv
  <1> QED BY <1>12, InvGives

(* A frame the host gets outside handle_slot_frame: an acknowledgement, or *)
(* what COLLECT takes for the reply.                                       *)
LEMMA TellOther ==
    ASSUME NEW at, NEW num, ToldPart, CorrPart(at, num), UNCHANGED <<reqs, ran, corr>>,
           NEW t, t.via \notin Relayed, t.of \in 1..Len(reqs), t.from \in Slaves \cup {App},
           told' = told \cup {t}
    PROVE  ToldPart' /\ CorrPart(at, num)'
  <1>0. t.via # "corr" /\ t.via \notin {"corr", "feedback", "sweep"}
    BY DEF Relayed
  <1>1. ToldOK(reqs, ran, told')
    BY DEF ToldPart, ToldOK
  <1>2. RelayMatches'
    BY <1>0 DEF ToldPart, RelayMatches, RightRequester
  <1>3. EntryOutstanding'
    BY <1>0 DEF CorrPart, EntryOutstanding
  <1> QED BY <1>1, <1>2, <1>3 DEF ToldPart, CorrPart

LEMMA AckedStep ==
    ASSUME NEW at \in AtFun, NEW num \in NumFun, Inv(at, num), Acked
    PROVE  IInv'
  <1>0. /\ st = "ack" /\ st' = "collect" /\ pending' = FALSE
        /\ job' = [job EXCEPT !.tries = CollectTries, !.heard = FALSE]
        /\ \/ told' = told
           \/ told' = told \cup {[via |-> "ack", from |-> job.c.to, id |-> cmd.id,
                                  of |-> job.c.of]}
    BY DEF Acked, Served
  <1>u. UNCHANGED <<reqs, cmd, origQ, origSeq, corr, eng, cyc, sending, cursor, rx, appq, txq,
                    ran, outbox>>
    BY DEF Acked, corrVars, nodeVars
  <1>p. /\ ReqsPart(at) /\ CtlPart /\ CmdPart(at, num) /\ JobPart(at, num) /\ EngPart(at, num)
        /\ OrigPart(at, num) /\ ListPart(at, num) /\ NodePart(num) /\ CorrPart(at, num)
        /\ ToldPart /\ reqs \in Requests
    BY Parts
  <1>g. Grown /\ RanKeeps(reqs, ran, ran') /\ NumKeeps(reqs, num, num)
    BY <1>p, <1>u, SameReqs, SameKeeps
  <1>1. /\ Keeps(reqs, at, num, at, num, "eng") /\ Keeps(reqs, at, num, at, num, "orig")
        /\ Keeps(reqs, at, num, at, num, "out") /\ Keeps(reqs, at, num, at, num, "send")
        /\ EntryPlaces(reqs, at, at)
    BY SameKeeps
  <1>2. ReqsPart(at)' /\ NodePart(num)' /\ ListPart(at, num)' /\ OrigPart(at, num)'
        /\ EngPart(at, num)'
    BY <1>p, <1>g, <1>u, <1>1, ReqsFrame, NodeFrame, ListFrame, OrigFrame, EngFrame
  <1>3. CmdPart(at, num)'
    BY <1>0, <1>u, <1>p, <1>g, CmdWithdrawn
  <1>4. CtlPart'
    BY <1>p, <1>u, <1>0 DEF CtlPart
  <1>5. Staged(reqs, job.c)
    BY <1>0, <1>p DEF JobPart
  <1>6. JobPart(at, num)'
    <2>1. /\ job' \in [c : Command \cup {NoCmd}, tries : 0..CollectTries, heard : BOOLEAN]
          /\ job'.c = job.c /\ job'.tries = CollectTries /\ CollectTries # 0
      <3>1. CollectTries \in 0..CollectTries /\ CollectTries # 0
        BY Consts
      <3>2. /\ job \in [c : Command \cup {NoCmd}, tries : 0..CollectTries, heard : BOOLEAN]
            /\ FALSE \in BOOLEAN
        BY <1>p DEF JobPart
      <3> QED BY <3>1, <3>2, <1>0
    <2> QED BY <2>1, <1>0, <1>5, <1>u DEF JobPart
  <1>7. ToldPart' /\ CorrPart(at, num)'
    <2>1. CASE told' = told
      BY <2>1, <1>p, <1>g, <1>u, <1>1, ToldFrame, CorrFrame
    <2>2. CASE told' = told \cup {[via |-> "ack", from |-> job.c.to, id |-> cmd.id,
                                   of |-> job.c.of]}
      <3>1. PICK t : t = [via |-> "ack", from |-> job.c.to, id |-> cmd.id, of |-> job.c.of]
        OBVIOUS
      <3>2. t.via \notin Relayed /\ t.from = job.c.to /\ t.of = job.c.of /\ told' = told \cup {t}
        BY <3>1, <2>2 DEF Relayed
      <3>3. t.of \in 1..Len(reqs) /\ t.from \in Slaves \cup {App}
        BY <3>2, <1>5, <1>p, StagedOf
      <3> QED BY <3>2, <3>3, <1>p, <1>u, TellOther
    <2> QED BY <2>1, <2>2, <1>0
  <1>8. Inv(at, num)'
    BY <1>2, <1>3, <1>4, <1>6, <1>7 DEF Inv
  <1> QED BY <1>8, InvGives

(* A slave's queue is emptied.                                             *)
LEMMA NodeClear ==
    ASSUME NEW num, NodePart(num), NEW a \in Slaves, UNCHANGED <<reqs, ran, appq>>,
           txq' = txq \/ txq' = [txq EXCEPT ![a] = << >>],
           rx' \in Seq(Frames(reqs, ran, num))
    PROVE  NodePart(num)'
  <1>1. CASE txq' = txq
    BY <1>1 DEF NodePart
  <1>2. CASE txq' = [txq EXCEPT ![a] = << >>]
    <2>1. \A b \in Slaves : txq'[b] = IF b = a THEN << >> ELSE txq[b]
      BY <1>2 DEF NodePart
    <2>2. txq' \in [Slaves -> Seq(Reply)]
      BY <1>2 DEF NodePart
    <2>3. \A b \in Slaves : txq'[b] \in Seq(Replies(reqs, ran, num, b))
                            /\ Len(txq'[b]) <= NODE_TXQ_LEN
      <3>1. \A b \in Slaves : << >> \in Seq(Replies(reqs, ran, num, b)) /\ Len(<< >>) = 0
        OBVIOUS
      <3>2. 0 <= NODE_TXQ_LEN
        BY Consts
      <3> QED BY <2>1, <3>1, <3>2 DEF NodePart
    <2> QED BY <2>2, <2>3 DEF NodePart
  <1> QED BY <1>1, <1>2

(* node_emit_window: frames of what the slave queued.                      *)
LEMMA PollProps ==
    ASSUME NEW num, NodePart(num), NEW a \in Slaves, UNCHANGED <<reqs, ran, appq>>, PollSlot(a)
    PROVE  NodePart(num)'
  <1>0. /\ rx \in Seq(Frames(reqs, ran, num)) /\ txq[a] \in Seq(Replies(reqs, ran, num, a))
        /\ txq[a] \in Seq(Reply)
    BY DEF NodePart
  <1>1. Window(a) \in Seq(Frames(reqs, ran, num))
    <2>1. Len(txq[a]) \in Nat /\ DOMAIN txq[a] = 1..Len(txq[a])
      BY <1>0
    <2>2. \A i \in 1..Len(txq[a]) : [from |-> a, r |-> txq[a][i]] \in Frames(reqs, ran, num)
      <3> SUFFICES ASSUME NEW i \in 1..Len(txq[a])
                   PROVE  [from |-> a, r |-> txq[a][i]] \in Frames(reqs, ran, num)
        OBVIOUS
      <3>1. txq[a][i] \in Replies(reqs, ran, num, a) /\ txq[a][i] \in Reply
        BY <1>0, <2>1
      <3> QED BY <3>1 DEF Frames
    <2>3. Window(a) = [i \in 1..Len(txq[a]) |-> [from |-> a, r |-> txq[a][i]]]
      BY <2>1 DEF Window
    <2> QED BY <2>1, <2>2, <2>3
  <1>2. /\ rx' = Window(a) \/ rx' = rx
        /\ txq' = txq \/ txq' = [txq EXCEPT ![a] = << >>]
    BY DEF PollSlot
  <1> QED BY <1>0, <1>1, <1>2, NodeClear

LEMMA CollectStep ==
    ASSUME NEW at \in AtFun, NEW num \in NumFun, Inv(at, num), Collect
    PROVE  IInv'
  <1>u. UNCHANGED <<reqs, pending, cmd, origQ, origSeq, corr, eng, cyc, sending, cursor, rx,
                    appq, ran, outbox>>
    BY DEF Collect, cmdVars, corrVars
  <1>p. /\ ReqsPart(at) /\ CtlPart /\ CmdPart(at, num) /\ JobPart(at, num) /\ EngPart(at, num)
        /\ OrigPart(at, num) /\ ListPart(at, num) /\ NodePart(num) /\ CorrPart(at, num)
        /\ ToldPart /\ reqs \in Requests
    BY Parts
  <1>g. Grown /\ RanKeeps(reqs, ran, ran') /\ NumKeeps(reqs, num, num)
    BY <1>p, <1>u, SameReqs, SameKeeps
  <1>1. /\ Keeps(reqs, at, num, at, num, "eng") /\ Keeps(reqs, at, num, at, num, "orig")
        /\ Keeps(reqs, at, num, at, num, "out") /\ Keeps(reqs, at, num, at, num, "send")
        /\ EntryPlaces(reqs, at, at)
    BY SameKeeps
  <1>2. ReqsPart(at)' /\ ListPart(at, num)' /\ OrigPart(at, num)' /\ EngPart(at, num)'
    BY <1>p, <1>g, <1>u, <1>1, ReqsFrame, ListFrame, OrigFrame, EngFrame
  <1>a. PICK a : a = job.c.to
    OBVIOUS
  <1>3. st = "collect" /\ Staged(reqs, job.c) /\ job.tries # 0 /\ a \in Slaves
    BY <1>a, <1>p, StagedOf DEF Collect, JobPart
  <1>4. /\ txq' = txq \/ txq' = [txq EXCEPT ![a] = << >>]
        /\ \/ /\ txq[a] # << >> /\ st' = "top" /\ job' = NoJob
              /\ told' = told \cup
                   {[via |-> "collect", from |-> IF job.c.orig THEN App ELSE a,
                     id |-> IF job.c.orig THEN job.c.host ELSE Head(txq[a]).id,
                     of |-> Head(txq[a]).of]}
           \/ Missed
    BY <1>a DEF Collect
  <1>5. NodePart(num)'
    <2>1. rx' \in Seq(Frames(reqs, ran, num))
      BY <1>p, <1>u DEF NodePart
    <2> QED BY <2>1, <1>p, <1>u, <1>3, <1>4, NodeClear
  <1>6. st' \in {"top", "collect"}
    BY <1>4 DEF Missed
  <1>7. CtlPart'
    BY <1>p, <1>u, <1>6 DEF CtlPart
  <1>8. CmdPart(at, num)'
    BY <1>3, <1>6, <1>u, <1>p DEF CmdPart, Live
  <1>9. CASE /\ txq[a] # << >> /\ st' = "top" /\ job' = NoJob
             /\ told' = told \cup
                   {[via |-> "collect", from |-> IF job.c.orig THEN App ELSE a,
                     id |-> IF job.c.orig THEN job.c.host ELSE Head(txq[a]).id,
                     of |-> Head(txq[a]).of]}
    <2>1. PICK t : t = [via |-> "collect", from |-> IF job.c.orig THEN App ELSE a,
                        id |-> IF job.c.orig THEN job.c.host ELSE Head(txq[a]).id,
                        of |-> Head(txq[a]).of]
      OBVIOUS
    <2>2. /\ t.via \notin Relayed /\ t.of = Head(txq[a]).of /\ told' = told \cup {t}
          /\ t.from \in Slaves \cup {App}
      BY <2>1, <1>9, <1>3 DEF Relayed
    <2>3. t.of \in 1..Len(reqs)
      <3>1. txq[a] \in Seq(Replies(reqs, ran, num, a))
        BY <1>3, <1>p DEF NodePart
      <3>2. Head(txq[a]) \in Replies(reqs, ran, num, a)
        BY <3>1, <1>9, TailFacts
      <3> QED BY <3>2, <2>2 DEF Replies
    <2>4. ToldPart' /\ CorrPart(at, num)'
      BY <2>2, <2>3, <1>p, <1>u, TellOther
    <2>5. JobPart(at, num)'
      <3>1. NoJob \in [c : Command \cup {NoCmd}, tries : 0..CollectTries, heard : BOOLEAN]
        BY Consts DEF NoJob
      <3> QED BY <3>1, <1>9 DEF JobPart
    <2>6. Inv(at, num)'
      BY <1>2, <1>5, <1>7, <1>8, <2>4, <2>5 DEF Inv
    <2> QED BY <2>6, InvGives
  <1>10. CASE Missed
    <2>1. ToldPart' /\ CorrPart(at, num)'
      BY <1>10, <1>p, <1>g, <1>u, <1>1, ToldFrame, CorrFrame DEF Missed
    <2>2. JobPart(at, num)'
      <3>1. /\ job' = [job EXCEPT !.tries = IF job.tries = 1 THEN CollectTries ELSE job.tries - 1]
            /\ job \in [c : Command \cup {NoCmd}, tries : 0..CollectTries, heard : BOOLEAN]
        BY <1>10, <1>p DEF Missed, JobPart
      <3>2. PICK k : k = IF job.tries = 1 THEN CollectTries ELSE job.tries - 1
        OBVIOUS
      <3>3. k \in 0..CollectTries /\ k # 0
        BY <3>1, <3>2, <1>3, Consts
      <3>4. /\ job' \in [c : Command \cup {NoCmd}, tries : 0..CollectTries, heard : BOOLEAN]
            /\ job'.c = job.c /\ job'.tries # 0
        BY <3>1, <3>2, <3>3
      <3> QED BY <3>4, <1>6, <1>3, <1>u DEF JobPart
    <2>3. Inv(at, num)'
      BY <1>2, <1>5, <1>7, <1>8, <2>1, <2>2 DEF Inv
    <2> QED BY <2>3, InvGives
  <1> QED BY <1>4, <1>9, <1>10

LEMMA Next1Props == ASSUME NEW a \in Slaves PROVE Next1(a) \in Slaves
  BY Consts DEF Next1

(* The sweeps: per slot and of the cycle, and the end of the cycle.        *)
LEMMA SweepStep ==
    ASSUME NEW at \in AtFun, NEW num \in NumFun, Inv(at, num), Sweep \/ CyclePoll \/ CycleEnd
    PROVE  IInv'
  <1>u. /\ UNCHANGED <<reqs, told, pending, cmd, origQ, origSeq, corr, eng, job, sending, appq,
                       ran, outbox>>
        /\ st' = st \/ (st = "sweep" /\ st' = "top")
        /\ cursor' = cursor \/ cursor' = Next1(cursor)
        /\ cyc' = cyc \/ cyc' \in {"poll", "end", "idle"}
        /\ PollSlot(cursor) \/ UNCHANGED <<rx, txq>>
    BY DEF Sweep, CyclePoll, CycleEnd, hostVars, cmdVars, corrVars, nodeVars
  <1>p. /\ ReqsPart(at) /\ CtlPart /\ CmdPart(at, num) /\ JobPart(at, num) /\ EngPart(at, num)
        /\ OrigPart(at, num) /\ ListPart(at, num) /\ NodePart(num) /\ CorrPart(at, num)
        /\ ToldPart /\ reqs \in Requests
    BY Parts
  <1>g. Grown /\ RanKeeps(reqs, ran, ran') /\ NumKeeps(reqs, num, num)
    BY <1>p, <1>u, SameReqs, SameKeeps
  <1>1. /\ Keeps(reqs, at, num, at, num, "eng") /\ Keeps(reqs, at, num, at, num, "orig")
        /\ Keeps(reqs, at, num, at, num, "out") /\ Keeps(reqs, at, num, at, num, "send")
        /\ EntryPlaces(reqs, at, at)
    BY SameKeeps
  <1>2. ReqsPart(at)' /\ ListPart(at, num)' /\ OrigPart(at, num)' /\ EngPart(at, num)'
    BY <1>p, <1>g, <1>u, <1>1, ReqsFrame, ListFrame, OrigFrame, EngFrame
  <1>3. ToldPart' /\ CorrPart(at, num)'
    BY <1>p, <1>g, <1>u, <1>1, ToldFrame, CorrFrame
  <1>4. CtlPart'
    BY <1>p, <1>u, Next1Props DEF CtlPart
  <1>5. CmdPart(at, num)' /\ JobPart(at, num)'
    BY <1>u, <1>p DEF CmdPart, Live, JobPart
  <1>6. NodePart(num)'
    <2>1. CASE PollSlot(cursor)
      BY <2>1, <1>p, <1>u, PollProps DEF CtlPart
    <2>2. CASE UNCHANGED <<rx, txq>>
      BY <2>2, <1>p, <1>g, <1>u, NodeFrame
    <2> QED BY <2>1, <2>2, <1>u
  <1>7. Inv(at, num)'
    BY <1>2, <1>3, <1>4, <1>5, <1>6 DEF Inv
  <1> QED BY <1>7, InvGives

(* handle_slot_frame of a reply of request m.                              *)
LEMMA HandleFrameStep ==
    ASSUME NEW at \in AtFun, NEW num \in NumFun, Inv(at, num), HandleFrame
    PROVE  IInv'
  <1>0. rx # << >> /\ rx' = Tail(rx)
    BY DEF HandleFrame
  <1>u. UNCHANGED <<reqs, pending, cmd, origQ, origSeq, eng, st, job, cyc, sending, cursor,
                    appq, txq, ran, outbox>>
    BY DEF HandleFrame, cmdVars, nodeVars
  <1>p. /\ ReqsPart(at) /\ CtlPart /\ CmdPart(at, num) /\ JobPart(at, num) /\ EngPart(at, num)
        /\ OrigPart(at, num) /\ ListPart(at, num) /\ NodePart(num) /\ CorrPart(at, num)
        /\ ToldPart /\ reqs \in Requests /\ Len(reqs) \in Nat
    BY Parts
  <1>g. Grown /\ RanKeeps(reqs, ran, ran') /\ NumKeeps(reqs, num, num)
    BY <1>p, <1>u, SameReqs, SameKeeps
  <1>1. /\ Keeps(reqs, at, num, at, num, "cmd") /\ Keeps(reqs, at, num, at, num, "job")
        /\ Keeps(reqs, at, num, at, num, "eng") /\ Keeps(reqs, at, num, at, num, "orig")
        /\ Keeps(reqs, at, num, at, num, "out") /\ Keeps(reqs, at, num, at, num, "send")
    BY SameKeeps
  <1>2. ReqsPart(at)' /\ ListPart(at, num)' /\ OrigPart(at, num)' /\ EngPart(at, num)'
    BY <1>p, <1>g, <1>u, <1>1, ReqsFrame, ListFrame, OrigFrame, EngFrame
  <1>3. CtlPart' /\ CmdPart(at, num)' /\ JobPart(at, num)'
    BY <1>p, <1>g, <1>u, <1>1, CtlFrame, CmdFrame, JobFrame
  <1>f. PICK f : f = Head(rx)
    OBVIOUS
  <1>4. Tail(rx) \in Seq(Frames(reqs, ran, num)) /\ f \in Frames(reqs, ran, num)
    BY <1>0, <1>f, <1>p, TailFacts DEF NodePart
  <1>5. NodePart(num)'
    BY <1>0, <1>4, <1>u, <1>p DEF NodePart
  <1>m. PICK m : m = f.r.of
    OBVIOUS
  <1>6. /\ m \in 1..Len(reqs) /\ ran[m] = 1 /\ reqs[m].to = f.from /\ f.r.id = num[m]
        /\ num[m] # 0 /\ f.from \in Slaves /\ m \in Nat
    BY <1>4, <1>m, <1>p DEF Frames, Replies
  <1>7. /\ CorrOK(reqs, at, num, corr) /\ EntryOutstanding /\ NumOK(reqs, origSeq, num)
        /\ corr \in [1..CMDCORR_MAX -> Entry] /\ DOMAIN corr = 1..CMDCORR_MAX
        /\ CMDCORR_MAX \in Nat
    BY <1>p, Consts DEF CorrPart, CorrOK, OrigPart
  (* An entry of this id is the request's own, and the only one. *)
  <1>8. ASSUME NEW i \in 1..CMDCORR_MAX, corr[i] # Free,
               corr[i].id = f.r.id \/ corr[i].host = HostId(m)
        PROVE  corr[i] = EntryOf(reqs, num, m) /\ corr[i].host = HostId(m)
    <2>0. CorrOK(reqs, at, num, corr) /\ corr[i] # Free /\ reqs \in Requests
      BY <1>7, <1>8, <1>p
    <2>1. PICK n \in 1..Len(reqs) : /\ corr[i] = EntryOf(reqs, num, n) /\ corr[i].host = HostId(n)
                                    /\ num[n] # 0 /\ at[n] \notin {"cmd", "orig"}
      BY ONLY <2>0, num \in NumFun, i \in 1..CMDCORR_MAX, EntryKnown
    <2>2. corr[i].id = num[n] /\ n \in Nat
      BY <2>1, <1>p, EntryOfProps
    <2>3. n = m
      BY <2>1, <2>2, <1>6, <1>7, <1>8, HostIdInj DEF NumOK
    <2> QED BY <2>1, <2>3
  <1>9. /\ EntryOf(reqs, num, m).id = num[m] /\ EntryOf(reqs, num, m).addr = f.from
        /\ EntryOf(reqs, num, m).host = HostId(m)
        /\ EntryOf(reqs, num, m).orig = (reqs[m].kind = "orig")
    BY <1>6, <1>p, EntryOfProps
  <1>10. CASE \E i \in Match(f.r.id, f.from) :
               /\ told' = told \cup {[via |-> "corr",
                                      from |-> IF corr[i].orig THEN App ELSE f.from,
                                      id |-> IF corr[i].orig THEN corr[i].host ELSE f.r.id,
                                      of |-> f.r.of]}
               /\ FreeEntry(i)
    <2>1. PICK i \in Match(f.r.id, f.from) :
               /\ told' = told \cup {[via |-> "corr",
                                      from |-> IF corr[i].orig THEN App ELSE f.from,
                                      id |-> IF corr[i].orig THEN corr[i].host ELSE f.r.id,
                                      of |-> f.r.of]}
               /\ FreeEntry(i)
      BY <1>10
    <2>2. i \in 1..CMDCORR_MAX /\ corr[i].id = f.r.id /\ corr[i] # Free
      BY <1>7 DEF Match
    <2>3. corr[i] = EntryOf(reqs, num, m) /\ corr[i].host = HostId(m)
      BY <2>2, <1>8
    <2>4. corr' = [corr EXCEPT ![i] = Free]
      BY <2>1 DEF FreeEntry
    <2>5. \A j \in 1..CMDCORR_MAX : corr'[j] # Free => j # i /\ corr'[j] = corr[j]
      BY <2>2, <2>4, <1>7
    <2>t. PICK t : t = [via |-> "corr", from |-> IF corr[i].orig THEN App ELSE f.from,
                        id |-> IF corr[i].orig THEN corr[i].host ELSE f.r.id, of |-> f.r.of]
      OBVIOUS
    <2>6. /\ told' = told \cup {t} /\ t.via = "corr" /\ t.of = m
          /\ t.from = (IF corr[i].orig THEN App ELSE f.from)
          /\ t.id = (IF corr[i].orig THEN corr[i].host ELSE f.r.id)
      BY <2>1, <2>t, <1>m
    <2>7. corr[i].orig = (reqs[m].kind = "orig")
      BY <2>3, <1>9
    <2>8. t.id = HostId(m) /\ t.from \in Slaves \cup {App}
          /\ ((t.from = App) <=> reqs[m].kind = "orig")
      <3>1. CASE reqs[m].kind = "orig"
        <4>1. corr[i].orig
          BY <3>1, <2>7
        <4> QED BY <4>1, <3>1, <2>6, <2>3
      <3>2. CASE reqs[m].kind # "orig"
        <4>1. ~corr[i].orig /\ num[m] = HostId(m)
          BY <3>2, <2>7, <1>6, <1>7 DEF NumOK
        <4> QED BY <4>1, <3>2, <2>6, <1>6, Consts
      <3> QED BY <3>1, <3>2
    <2>9. CorrOK(reqs, at, num, corr')
      <3>1. Free \in Entry
        BY Consts DEF Free, Entry, App
      <3>2. corr' \in [1..CMDCORR_MAX -> Entry]
        BY <3>1, <2>4, <1>7
      <3> QED BY <3>2, <2>5, <1>7 DEF CorrOK
    <2>10. EntryOutstanding'
      <3> SUFFICES ASSUME NEW j \in 1..CMDCORR_MAX, corr'[j] # Free,
                          NEW x \in told', x.via \in {"corr", "feedback", "sweep"}
                   PROVE  HostId(x.of) # corr'[j].host
        <4>1. DOMAIN corr' = 1..CMDCORR_MAX
          BY <2>4, <1>7
        <4> QED BY <4>1 DEF EntryOutstanding
      <3>1. j # i /\ corr'[j] = corr[j] /\ corr[j] # Free
        BY <2>5
      <3>2. CASE x \in told
        BY <3>1, <3>2, <1>7 DEF EntryOutstanding
      <3>3. CASE x = t
        <4>1. corr[j].host # HostId(m)
          BY <3>1, <2>2, <2>3, <1>7 DEF CorrOK
        <4> QED BY <4>1, <3>1, <3>3, <2>6
      <3> QED BY <3>2, <3>3, <2>6
    <2>11. ToldOK(reqs, ran, told')
      BY <2>6, <2>8, <1>6, <1>p DEF ToldPart, ToldOK
    <2>12. RelayMatches'
      <3>1. RightRequester(t)'
        BY <2>6, <2>8, <1>u DEF RightRequester
      <3>2. \A x \in told : RightRequester(x) => RightRequester(x)'
        BY <1>u DEF RightRequester
      <3> QED BY <3>1, <3>2, <2>6, <1>p DEF ToldPart, RelayMatches
    <2>13. CorrPart(at, num)' /\ ToldPart'
      BY <2>9, <2>10, <2>11, <2>12, <1>u DEF CorrPart, ToldPart
    <2>14. Inv(at, num)'
      BY <1>2, <1>3, <1>5, <2>13 DEF Inv
    <2> QED BY <2>14, InvGives
  <1>11. CASE /\ Match(f.r.id, f.from) = {} /\ corr' = corr
              /\ told' = told \cup {[via |-> IF cyc = "idle" THEN "sweep" ELSE "feedback",
                                     from |-> f.from, id |-> f.r.id, of |-> f.r.of]}
    <2>t. PICK t : t = [via |-> IF cyc = "idle" THEN "sweep" ELSE "feedback",
                        from |-> f.from, id |-> f.r.id, of |-> f.r.of]
      OBVIOUS
    <2>1. /\ told' = told \cup {t} /\ t.via \in {"sweep", "feedback"} /\ t.of = m
          /\ t.from \in Slaves \cup {App}
      BY <2>t, <1>11, <1>m, <1>6
    <2>2. ASSUME NEW j \in 1..CMDCORR_MAX, corr[j] # Free, corr[j].host = HostId(m)
          PROVE  FALSE
      <3>1. corr[j].id = f.r.id /\ corr[j].addr = f.from
        BY <2>2, <1>8, <1>9, <1>6
      <3>2. ASSUME NEW k \in 1..(j - 1), corr[k].id = f.r.id, corr[k].addr = f.from
            PROVE  FALSE
        <4>1. k \in 1..CMDCORR_MAX /\ k # j
          BY <1>7
        <4>2. corr[k] # Free
          <5>1. f.from # App
            BY <1>6, Consts
          <5>2. Free.addr = App
            BY DEF Free
          <5> QED BY <5>1, <5>2, <3>2
        <4>3. corr[k].host = HostId(m)
          BY <3>2, <4>1, <4>2, <1>8
        <4> QED BY <4>1, <4>2, <4>3, <2>2, <1>7 DEF CorrOK
      <3>3. j \in Match(f.r.id, f.from)
        BY <3>1, <3>2, <2>2, <1>7 DEF Match
      <3> QED BY <3>3, <1>11
    <2>3. EntryOutstanding'
      <3> SUFFICES ASSUME NEW j \in 1..CMDCORR_MAX, corr[j] # Free,
                          NEW x \in told', x.via \in {"corr", "feedback", "sweep"}
                   PROVE  HostId(x.of) # corr[j].host
        BY <1>7, <1>11 DEF EntryOutstanding
      <3>1. CASE x \in told
        BY <3>1, <1>7 DEF EntryOutstanding
      <3>2. CASE x = t
        BY <3>2, <2>1, <2>2
      <3> QED BY <3>1, <3>2, <2>1
    <2>4. ToldOK(reqs, ran, told')
      BY <2>1, <1>6, <1>p DEF ToldPart, ToldOK
    <2>5. RelayMatches'
      <3>1. t.via # "corr"
        BY <2>1
      <3>2. \A x \in told : RightRequester(x) => RightRequester(x)'
        BY <1>u DEF RightRequester
      <3> QED BY <3>1, <3>2, <2>1, <1>p DEF ToldPart, RelayMatches
    <2>6. CorrPart(at, num)' /\ ToldPart'
      BY <2>3, <2>4, <2>5, <1>u, <1>7, <1>11 DEF CorrPart, ToldPart
    <2>7. Inv(at, num)'
      BY <1>2, <1>3, <1>5, <2>6 DEF Inv
    <2> QED BY <2>7, InvGives
  <1> QED BY <1>10, <1>11, <1>f DEF HandleFrame


-----------------------------------------------------------------------------
(* bus_run_cycle takes the lists and the staged command, n: all of them    *)
(* are to be sent in this cycle.                                           *)
Swapped(at, at2, n) ==
    \A m \in 1..MaxReqs : at2[m] = IF at[m] = "out" \/ m = n THEN "send" ELSE at[m]

LEMMA Swapping ==
    ASSUME NEW at \in AtFun, NEW n
    PROVE  \E at2 \in AtFun : Swapped(at, at2, n)
  <1> DEFINE at2 == [m \in 1..MaxReqs |-> IF at[m] = "out" \/ m = n THEN "send" ELSE at[m]]
  <1>1. at2 \in AtFun
    BY DEF AtFun, Places
  <1>2. Swapped(at, at2, n)
    BY DEF Swapped
  <1> QED BY <1>1, <1>2

LEMMA SwapKeeps ==
    ASSUME NEW rq \in Requests, NEW at, NEW num, NEW at2, NEW n, Swapped(at, at2, n),
           n \in 1..MaxReqs => at[n] = "cmd"
    PROVE  /\ Keeps(rq, at, num, at2, num, "job") /\ Keeps(rq, at, num, at2, num, "eng")
           /\ Keeps(rq, at, num, at2, num, "orig")
           /\ EntryPlaces(rq, at, at2)
           /\ \A m \in 1..Len(rq) : at[m] = "gone" => at2[m] = "gone"
  <1>1. Len(rq) \in 0..MaxReqs /\ MaxReqs \in Nat
    BY RequestsProps, Consts
  <1>2. \A m \in 1..Len(rq) : m \in 1..MaxReqs
    BY <1>1
  <1>3. \A m \in 1..Len(rq) : at[m] \notin {"out", "cmd"} => at2[m] = at[m]
    BY <1>2 DEF Swapped
  <1>4. EntryPlaces(rq, at, at2)
    BY <1>2 DEF EntryPlaces, Swapped
  <1> QED BY <1>3, <1>4 DEF Keeps

LEMMA FreshTable ==
    ASSUME NEW rq, NEW at, NEW num, corr \in [1..CMDCORR_MAX -> Entry]
    PROVE  CorrOK(rq, at, num, FreshCorr) /\ \A i \in 1..CMDCORR_MAX : FreshCorr[i] = Free
  <1>1. Free \in Entry /\ FreshCorr = [i \in 1..CMDCORR_MAX |-> Free]
    BY DEF Free, Entry, App, FreshCorr
  <1> QED BY <1>1 DEF CorrOK

LEMMA CycleStartStep ==
    ASSUME NEW at \in AtFun, NEW num \in NumFun, Inv(at, num), CycleStart
    PROVE  IInv'
  <1>q. PICK q : q = IF dirty THEN << >> ELSE outbox
    OBVIOUS
  <1>t. PICK t : t = IF dirty THEN FreshCorr ELSE corr
    OBVIOUS
  <1>0. /\ sending' = IF pending THEN <<cmd>> \o q ELSE q
        /\ corr' = IF pending THEN CorrAdd([cmd EXCEPT !.orig = FALSE, !.host = cmd.id], t) ELSE t
        /\ outbox' = << >> /\ pending' = FALSE /\ cyc' = "send" /\ cursor' = 1
        /\ st \in {"top", "collect"}
    BY <1>q, <1>t DEF CycleStart, Served
  <1>u. UNCHANGED <<reqs, told, cmd, origQ, origSeq, eng, st, job, rx, appq, txq, ran>>
    BY DEF CycleStart, hostVars, nodeVars
  <1>p. /\ ReqsPart(at) /\ CtlPart /\ CmdPart(at, num) /\ JobPart(at, num) /\ EngPart(at, num)
        /\ OrigPart(at, num) /\ ListPart(at, num) /\ NodePart(num) /\ CorrPart(at, num)
        /\ ToldPart /\ reqs \in Requests /\ Len(reqs) \in 0..MaxReqs /\ Len(reqs) \in Nat
    BY Parts
  <1>g. Grown /\ RanKeeps(reqs, ran, ran') /\ NumKeeps(reqs, num, num)
    BY <1>p, <1>u, SameReqs, SameKeeps
  <1>n. PICK n : n = IF pending THEN cmd.of ELSE 0
    OBVIOUS
  <1>1. /\ pending \in BOOLEAN
        /\ (pending => Placed(reqs, at, num, cmd, "cmd") /\ ~cmd.orig)
    BY <1>0, <1>p DEF CmdPart, Live
  <1>2. n \in 1..MaxReqs => at[n] = "cmd"
    <2>1. CASE pending
      BY <2>1, <1>1, <1>n DEF Placed
    <2>2. CASE ~pending
      BY <2>2, <1>n
    <2> QED BY <2>1, <2>2
  <1>3. PICK at2 \in AtFun : Swapped(at, at2, n)
    BY Swapping
  <1>4. /\ Keeps(reqs, at, num, at2, num, "job") /\ Keeps(reqs, at, num, at2, num, "eng")
        /\ Keeps(reqs, at, num, at2, num, "orig") /\ EntryPlaces(reqs, at, at2)
        /\ \A m \in 1..Len(reqs) : at[m] = "gone" => at2[m] = "gone"
    BY <1>2, <1>3, <1>p, SwapKeeps
  <1>5. ReqsPart(at2)' /\ ToldPart' /\ NodePart(num)'
    BY <1>p, <1>g, <1>u, <1>4, ReqsFrame, ToldFrame, NodeFrame
  <1>6. CtlPart'
    <2>1. 1 \in Slaves
      BY Consts
    <2> QED BY <2>1, <1>0, <1>u, <1>p DEF CtlPart
  <1>7. JobPart(at2, num)' /\ EngPart(at2, num)' /\ OrigPart(at2, num)' /\ CmdPart(at2, num)'
    <2>1. cmd' = cmd /\ pending' = FALSE
      BY <1>0, <1>u
    <2> QED BY <2>1, <1>p, <1>g, <1>u, <1>4, JobFrame, EngFrame, OrigFrame, CmdWithdrawn
  <1>8. ListPart(at2, num)'
    <2>1. ListOK(reqs, at2, num, << >>, "out") /\ ListOK(reqs, at2, num, << >>, "send")
      BY DEF ListOK, Distinct
    <2>2. ListOK(reqs, at, num, outbox, "out")
      BY <1>p DEF ListPart
    <2>3. ASSUME NEW i \in 1..Len(outbox)
          PROVE  Placed(reqs, at2, num, outbox[i], "send") /\ at[outbox[i].of] = "out"
      <3>1. Placed(reqs, at, num, outbox[i], "out")
        BY <2>2 DEF ListOK
      <3>2. outbox[i].of \in 1..MaxReqs /\ at[outbox[i].of] = "out"
        BY <3>1, <1>p, StagedOf DEF Placed
      <3>3. at2[outbox[i].of] = "send"
        BY <3>2, <1>3 DEF Swapped
      <3> QED BY <3>1, <3>2, <3>3 DEF Placed
    <2>4. ListOK(reqs, at2, num, outbox, "send")
      BY <2>2, <2>3 DEF ListOK
    <2>5. ListOK(reqs, at2, num, q, "send") /\ \A i \in 1..Len(q) : at[q[i].of] = "out"
      <3>1. CASE dirty
        BY <3>1, <1>q, <2>1
      <3>2. CASE ~dirty
        BY <3>2, <1>q, <2>3, <2>4
      <3> QED BY <3>1, <3>2
    <2>6. CASE pending
      <3>1. Placed(reqs, at, num, cmd, "cmd") /\ at[cmd.of] = "cmd" /\ n = cmd.of
            /\ cmd.of \in 1..MaxReqs
        BY <2>6, <1>1, <1>n, <1>p, StagedOf DEF Placed
      <3>2. Placed(reqs, at2, num, cmd, "send")
        BY <3>1, <1>3 DEF Placed, Swapped
      <3>3. \A i \in 1..Len(q) : q[i].of # cmd.of
        BY <3>1, <2>5
      <3>4. ListOK(reqs, at2, num, <<cmd>> \o q, "send")
        BY <3>2, <3>3, <2>5, <1>p, ListCons
      <3> QED BY <2>6, <3>4, <2>1, <1>0, <1>u DEF ListPart
    <2>7. CASE ~pending
      BY <2>7, <2>5, <2>1, <1>0, <1>u DEF ListPart
    <2> QED BY <2>6, <2>7
  <1>9. CorrPart(at2, num)'
    <2>0. CorrOK(reqs, at, num, corr) /\ corr \in [1..CMDCORR_MAX -> Entry] /\ EntryOutstanding
          /\ DOMAIN corr = 1..CMDCORR_MAX
      BY <1>p DEF CorrPart, CorrOK
    <2>1. /\ CorrOK(reqs, at, num, t)
          /\ \A i \in 1..CMDCORR_MAX : t[i] # Free => t[i] = corr[i] /\ corr[i] # Free
      <3>1. CASE dirty
        BY <3>1, <2>0, <1>t, FreshTable
      <3>2. CASE ~dirty
        BY <3>2, <2>0, <1>t
      <3> QED BY <3>1, <3>2
    <2>2. CorrOK(reqs, at2, num, t)
      <3>1. reqs \in Requests /\ Extends(reqs, reqs) /\ NumKeeps(reqs, num, num)
        BY <1>p, <1>g, <1>u DEF Grown
      <3>2. \A m \in 1..Len(reqs) : at[m] \notin {"cmd", "orig"} => at2[m] \notin {"cmd", "orig"}
        BY <1>4 DEF EntryPlaces
      <3>3. CorrOK(reqs, at, num, t)
        BY <2>1
      <3> QED BY <3>1, <3>2, <3>3, CorrKeeps
    <2>3. CASE pending
      <3>c. PICK c : c = [cmd EXCEPT !.orig = FALSE, !.host = cmd.id]
        OBVIOUS
      <3>1. /\ Placed(reqs, at, num, cmd, "cmd") /\ ~cmd.orig /\ n = cmd.of /\ Staged(reqs, cmd)
            /\ cmd.of \in 1..MaxReqs /\ cmd.of \in 1..Len(reqs) /\ cmd \in Command
        BY <2>3, <1>1, <1>n, <1>p, StagedOf DEF Placed
      <3>2. /\ n \in 1..Len(reqs) /\ num[n] # 0 /\ at[n] = "cmd" /\ at2[n] = "send" /\ n \in Nat
            /\ cmd.id = num[n] /\ cmd.id = HostId(n) /\ cmd.to = reqs[n].to
            /\ reqs[n].kind # "orig" /\ n \in 1..MaxReqs
        <4>1. /\ num[n] # 0 /\ at[n] = "cmd" /\ cmd.id = num[n]
          BY <3>1 DEF Placed
        <4>2. cmd.host = HostId(n) /\ cmd.id = cmd.host /\ cmd.to = reqs[n].to
              /\ cmd.orig = (reqs[n].kind = "orig")
          BY <3>1 DEF Staged
        <4>3. reqs[n].kind # "orig"
          BY <4>2, <3>1
        <4>4. at2[n] = "send"
          BY <3>1, <1>3 DEF Swapped
        <4>5. n \in Nat
          BY <3>1, <1>p
        <4> QED BY <4>1, <4>2, <4>3, <4>4, <4>5, <3>1
      <3>3. Correlation(c) = EntryOf(reqs, num, n)
        <4>1. c.id = cmd.id /\ c.to = cmd.to /\ c.orig = FALSE /\ c.host = cmd.id
          BY <3>1, <3>c DEF Command
        <4>2. (reqs[n].kind = "orig") = FALSE
          BY <3>2
        <4> QED BY <4>1, <4>2, <3>2 DEF Correlation, EntryOf
      <3>4. ASSUME NEW i \in 1..CMDCORR_MAX, t[i] # Free PROVE t[i].host # HostId(n)
        <4>1. CorrOK(reqs, at, num, t) /\ reqs \in Requests /\ t[i] # Free
          BY <2>1, <1>p, <3>4
        <4>2. PICK m \in 1..Len(reqs) : /\ t[i] = EntryOf(reqs, num, m) /\ t[i].host = HostId(m)
                                        /\ num[m] # 0 /\ at[m] \notin {"cmd", "orig"}
          BY <4>1, EntryKnown
        <4>3. m # n /\ m \in Nat
          BY <4>2, <3>2, <1>p
        <4> QED BY <4>2, <4>3, <3>2, HostIdInj
      <3>5. corr' = CorrAdd(c, t)
        BY <2>3, <3>c, <1>0
      <3>6. at2[n] \notin {"cmd", "orig"} /\ num[n] # 0 /\ n \in 1..Len(reqs) /\ reqs \in Requests
        BY <3>2, <1>p
      <3>7. /\ CorrOK(reqs, at2, num, CorrAdd(c, t))
            /\ \A i \in 1..CMDCORR_MAX : CorrAdd(c, t)[i] # Free =>
                 t[i] = CorrAdd(c, t)[i] \/ CorrAdd(c, t)[i].host = HostId(n)
        BY <2>2, <3>3, <3>4, <3>6, CorrAddKeeps
      <3>8. ASSUME NEW i \in 1..CMDCORR_MAX, corr'[i] # Free,
                   NEW x \in told, x.via \in {"corr", "feedback", "sweep"}
            PROVE  HostId(x.of) # corr'[i].host
        <4>1. x.of \in 1..Len(reqs) /\ ran[x.of] = 1
          BY <3>8, <1>p DEF ToldPart, ToldOK, Relayed
        <4>2. at[x.of] = "gone"
          BY <4>1, <1>p DEF ReqsPart
        <4>3. x.of # n /\ x.of \in Nat
          BY <4>1, <4>2, <3>2, <1>p
        <4>4. CASE corr'[i].host = HostId(n)
          BY <4>3, <4>4, <3>2, HostIdInj
        <4>5. CASE t[i] = corr'[i]
          <5>1. corr'[i] = corr[i] /\ corr[i] # Free
            BY <4>5, <3>8, <2>1
          <5> QED BY <5>1, <2>0, <3>8 DEF EntryOutstanding
        <4> QED BY <4>4, <4>5, <3>5, <3>7, <3>8
      <3>9. EntryOutstanding'
        <4>1. DOMAIN corr' = 1..CMDCORR_MAX
          BY <3>5, <3>7 DEF CorrOK
        <4> QED BY <4>1, <3>8, <1>u DEF EntryOutstanding
      <3> QED BY <3>5, <3>7, <3>9, <1>u DEF CorrPart
    <2>4. CASE ~pending
      <3>1. corr' = t /\ DOMAIN t = 1..CMDCORR_MAX
        BY <2>4, <1>0, <2>1 DEF CorrOK
      <3>2. EntryOutstanding'
        <4> SUFFICES ASSUME NEW i \in 1..CMDCORR_MAX, t[i] # Free,
                            NEW x \in told, x.via \in {"corr", "feedback", "sweep"}
                     PROVE  HostId(x.of) # t[i].host
          BY <3>1, <1>u DEF EntryOutstanding
        <4> QED BY <2>1, <2>0 DEF EntryOutstanding
      <3> QED BY <3>1, <3>2, <2>2, <1>u DEF CorrPart
    <2> QED BY <2>3, <2>4
  <1>10. Inv(at2, num)'
    BY <1>5, <1>6, <1>7, <1>8, <1>9 DEF Inv
  <1> QED BY <1>10, InvGives


-----------------------------------------------------------------------------
LEMMA IInvInit == Init => IInv
  <1> SUFFICES ASSUME Init PROVE IInv
    OBVIOUS
  <1>1. PICK at \in AtFun : at = [n \in 1..MaxReqs |-> "gone"]
    BY DEF AtFun, Places
  <1>2. PICK num \in NumFun : num = [n \in 1..MaxReqs |-> 0]
    BY DEF NumFun
  <1>c. /\ HostBase \in Nat /\ CMDCORR_MAX \in Nat /\ OrigLen \in Nat /\ NODE_TXQ_LEN \in Nat
        /\ CollectTries \in Nat /\ MaxReqs \in Nat /\ 1 \in Slaves
    BY Consts
  <1>e. \A S : << >> \in Seq(S) /\ Len(<< >>) = 0
    OBVIOUS
  <1>3. ReqsPart(at) /\ CtlPart
    <2>1. reqs = << >> /\ ran = << >> /\ st = "top" /\ cyc = "idle" /\ cursor = 1
      BY DEF Init
    <2> QED BY <2>1, <1>c, <1>e DEF ReqsPart, CtlPart, Requests
  <1>4. CmdPart(at, num) /\ EngPart(at, num)
    BY DEF Init, CmdPart, EngPart, Live
  <1>5. JobPart(at, num)
    <2>1. job = NoJob /\ st = "top"
      BY DEF Init
    <2>2. NoJob \in [c : Command \cup {NoCmd}, tries : 0..CollectTries, heard : BOOLEAN]
      BY <1>c DEF NoJob
    <2> QED BY <2>1, <2>2 DEF JobPart
  <1>6. OrigPart(at, num) /\ ListPart(at, num)
    <2>1. reqs = << >> /\ origQ = << >> /\ origSeq = 0 /\ outbox = << >> /\ sending = << >>
      BY DEF Init
    <2> QED BY <2>1, <1>c, <1>e DEF OrigPart, ListPart, QueueOK, ListOK, NumOK, Distinct
  <1>7. NodePart(num)
    <2>1. /\ appq = [a \in Slaves |-> << >>] /\ txq = [a \in Slaves |-> << >>] /\ rx = << >>
      BY DEF Init
    <2> QED BY <2>1, <1>c, <1>e DEF NodePart
  <1>8. CorrPart(at, num) /\ ToldPart
    <2>1. corr = [i \in 1..CMDCORR_MAX |-> Free] /\ told = {}
      BY DEF Init
    <2>2. Free \in Entry
      BY DEF Free, Entry, App
    <2> QED BY <2>1, <2>2 DEF CorrPart, CorrOK, EntryOutstanding, ToldPart, ToldOK, RelayMatches
  <1>9. Inv(at, num)
    BY <1>3, <1>4, <1>5, <1>6, <1>7, <1>8 DEF Inv
  <1> QED BY <1>9 DEF IInv

LEMMA StutterStep ==
    ASSUME IInv, UNCHANGED vars
    PROVE  IInv'
  <1>u. UNCHANGED <<reqs, told, pending, cmd, origQ, origSeq, corr, eng, st, job, cyc, sending,
                    cursor, rx, appq, txq, ran, outbox>>
    BY DEF vars, hostVars, cmdVars, corrVars, busVars, nodeVars
  <1>1. PICK at \in AtFun, num \in NumFun : Inv(at, num)
    BY DEF IInv
  <1>2. ReqsPart(at)' /\ CtlPart' /\ CmdPart(at, num)' /\ JobPart(at, num)' /\ EngPart(at, num)'
    BY <1>1, <1>u DEF Inv, ReqsPart, CtlPart, CmdPart, Live, JobPart, EngPart
  <1>3. OrigPart(at, num)' /\ ListPart(at, num)' /\ NodePart(num)'
    BY <1>1, <1>u DEF Inv, OrigPart, ListPart, NodePart
  <1>4. CorrPart(at, num)' /\ ToldPart'
    BY <1>1, <1>u
       DEF Inv, CorrPart, EntryOutstanding, ToldPart, RelayMatches, RightRequester
  <1>5. Inv(at, num)'
    BY <1>2, <1>3, <1>4 DEF Inv
  <1> QED BY <1>5, InvGives

LEMMA IInvNext ==
    ASSUME Apart, IInv, [Next]_vars
    PROVE  IInv'
  <1>1. PICK at \in AtFun, num \in NumFun : Inv(at, num)
    BY DEF IInv
  <1>2. CASE \E a \in Slaves, k \in Kinds \ {"orig"} : HostCommand(a, k)
    BY <1>1, <1>2, HostCommandStep
  <1>3. CASE \E a \in Slaves : HostOriginate(a)
    BY <1>1, <1>3, HostOriginateStep
  <1>4. CASE EngineSend
    BY <1>1, <1>4, EngineSendStep
  <1>5. CASE SwitchMode \/ UplinkEnter \/ ReloadRoster
    BY <1>1, <1>5, AdminStep
  <1>6. CASE \E a \in Slaves : NodeEngine(a)
    BY <1>1, <1>6, NodeEngineStep
  <1>7. CASE BusStep
    <2>1. CASE TakeOrig
      BY <2>1, <1>1, TakeOrigStep
    <2>2. CASE CopyCmd
      BY <2>2, <1>1, CopyCmdStep
    <2>3. CASE InjectSend
      BY <2>3, <1>1, InjectSendStep
    <2>4. CASE Acked
      BY <2>4, <1>1, AckedStep
    <2>5. CASE Collect
      BY <2>5, <1>1, CollectStep
    <2>6. CASE Sweep \/ CyclePoll \/ CycleEnd
      BY <2>6, <1>1, SweepStep
    <2>7. CASE HandleFrame
      BY <2>7, <1>1, HandleFrameStep
    <2>8. CASE CycleStart
      BY <2>8, <1>1, CycleStartStep
    <2>9. CASE CycleSend
      BY <2>9, <1>1, CycleSendStep
    <2> QED BY <1>7, <2>1, <2>2, <2>3, <2>4, <2>5, <2>6, <2>7, <2>8, <2>9 DEF BusStep
  <1>8. CASE UNCHANGED vars
    BY <1>8, StutterStep
  <1> QED BY <1>2, <1>3, <1>4, <1>5, <1>6, <1>7, <1>8 DEF Next

(* What the invariant says of a state is what RpcSound asks for.           *)
LEMMA IInvSound == IInv => RpcSound
  <1> SUFFICES ASSUME IInv PROVE RpcSound
    OBVIOUS
  <1>1. PICK at \in AtFun, num \in NumFun : Inv(at, num)
    BY DEF IInv
  <1>p. /\ ReqsPart(at) /\ CtlPart /\ CmdPart(at, num) /\ JobPart(at, num) /\ EngPart(at, num)
        /\ OrigPart(at, num) /\ ListPart(at, num) /\ NodePart(num) /\ CorrPart(at, num)
        /\ ToldPart /\ reqs \in Requests /\ Len(reqs) \in 0..MaxReqs /\ Len(reqs) \in Nat
    BY <1>1, Parts
  <1>2. AtMostOnce
    <2>1. DOMAIN ran = 1..Len(reqs)
      BY <1>p DEF ReqsPart
    <2>2. \A n \in 1..Len(reqs) : ran[n] = 0 \/ ran[n] = 1
      BY <1>p DEF ReqsPart
    <2> QED BY <2>1, <2>2 DEF AtMostOnce
  <1>3. RelayMatches /\ EntryOutstanding
    BY <1>p DEF CorrPart, ToldPart
  <1>4. TypeOK
    <2>1. reqs \in Seq([to : Slaves, kind : Kinds]) /\ Len(reqs) <= MaxReqs /\ Len(ran) = Len(reqs)
      BY <1>p DEF ReqsPart, Requests, Request
    <2>2. \A t \in told : t.from \in Slaves \cup {App} /\ t.of \in DOMAIN reqs
      <3>1. DOMAIN reqs = 1..Len(reqs)
        BY <2>1
      <3> QED BY <3>1, <1>p DEF ToldPart, ToldOK
    <2>3. cmd \in Command \cup {NoCmd} /\ eng \in Command \cup {NoCmd} /\ (pending => cmd # NoCmd)
      BY <1>p DEF CmdPart, EngPart, Placed, Staged
    <2>4. \A q \in {origQ, outbox, sending} : q \in Seq(Command)
      <3>1. StagedCmds(reqs) \subseteq Command
        BY DEF StagedCmds
      <3>2. /\ origQ \in Seq(StagedCmds(reqs)) /\ outbox \in Seq(StagedCmds(reqs))
            /\ sending \in Seq(StagedCmds(reqs))
        BY <1>p DEF OrigPart, QueueOK, ListPart, ListOK
      <3> QED BY <3>1, <3>2, SeqMonotonic
    <2>5. Len(origQ) <= OrigLen /\ origSeq \in 0..MaxReqs
      <3>1. Len(origQ) \in Nat /\ origSeq \in Nat /\ origSeq + Len(origQ) <= Len(reqs)
        BY <1>p DEF OrigPart, QueueOK
      <3>2. Len(reqs) \in 0..MaxReqs /\ MaxReqs \in Nat
        BY <1>p, Consts
      <3>3. origSeq \in 0..MaxReqs
        BY <3>1, <3>2
      <3> QED BY <3>3, <1>p DEF OrigPart
    <2>6. job.c \in Command \cup {NoCmd} /\ job.tries \in 0..CollectTries
      BY <1>p DEF JobPart
    <2>7. \A a \in Slaves : txq[a] \in Seq(Reply) /\ Len(txq[a]) <= NODE_TXQ_LEN
      BY <1>p DEF NodePart
    <2> QED BY <2>1, <2>2, <2>3, <2>4, <2>5, <2>6, <2>7, <1>p DEF TypeOK, CtlPart
  <1> QED BY <1>2, <1>3, <1>4 DEF RpcSound

(* A slave executes a request at most once, a reply relayed through the    *)
(* correlation table reaches its own requester under its own id, and no    *)
(* entry outlives its reply: for every number of slaves and requests, any  *)
(* table and queue lengths, every loss of frames and every switch between  *)
(* the arbiter and the cycle, when the host numbers its commands apart     *)
(* from g_orig_seq.                                                        *)
THEOREM RpcSafety == Apart => (Spec => []RpcSound)
  <1>1. ASSUME Apart PROVE IInv /\ [Next]_vars => IInv'
    BY <1>1, IInvNext
  <1>2. ASSUME Apart PROVE Spec => []RpcSound
    <2>1. IInv /\ [Next]_vars => IInv'
      BY <1>1, <1>2
    <2> QED BY <2>1, IInvInit, IInvSound, PTL DEF Spec
  <1> QED BY <1>2
=============================================================================
