----------------------------- MODULE MCSession -----------------------------
(***************************************************************************)
(* Instances of Session for TLC.                                           *)
(***************************************************************************)
EXTENDS Session

\* The default settings of a session.
BaseConfig ==
  [initiate |-> FALSE, resetOnLogon |-> FALSE, resetOnLogout |-> FALSE,
   resetOnDisconnect |-> FALSE, persist |-> TRUE, nextExpected |-> FALSE,
   redundant |-> FALSE, threaded |-> FALSE, logonTimeout |-> 2, logoutTimeout |-> 2]

Acceptor == {BaseConfig}
Both == {[BaseConfig EXCEPT !.initiate = i] : i \in BOOLEAN}

Numbers == 1..(MaxSeq + 1)
Sound(types) == {[NewMessage(t) EXCEPT !.seq = n] : t \in types, n \in Numbers}
Logons(expected) ==
  {[NewMessage("Logon") EXCEPT !.seq = n, !.flag = f, !.num = x, !.hb = h] :
     n \in Numbers, f \in BOOLEAN, x \in expected, h \in HeartBtInts}
Resets ==
  {[NewMessage("SequenceReset") EXCEPT !.seq = n, !.flag = f, !.num = x] :
     n \in Numbers, f \in BOOLEAN, x \in Numbers}
ResendRequests ==
  {[NewMessage("ResendRequest") EXCEPT !.seq = n, !.num = b] : n \in Numbers, b \in Numbers}
Apps ==
  {[NewMessage("App") EXCEPT !.seq = n, !.body = p, !.possDup = d] :
     n \in Numbers, p \in Payloads, d \in BOOLEAN}

NumberingMessages ==
  Logons({0}) \cup Resets \cup ResendRequests \cup Apps
    \cup Sound({"Heartbeat", "Logout"})

\* Settings: who initiates, each reset option, the store, the Logon's
\* NextExpectedMsgSeqNum and the kind of transport.
Settings ==
  LET one(c) == {c, [c EXCEPT !.resetOnLogon = TRUE], [c EXCEPT !.resetOnLogout = TRUE],
                 [c EXCEPT !.resetOnDisconnect = TRUE], [c EXCEPT !.persist = FALSE],
                 [c EXCEPT !.nextExpected = TRUE], [c EXCEPT !.threaded = TRUE]}
  IN UNION {one(c) : c \in Both}
SettingsMessages ==
  Logons({0, 1, 2}) \cup {m \in Apps : ~m.possDup} \cup Sound({"Logout"})
    \cup {[m EXCEPT !.defect = d] : m \in {l \in Logons({2}) : l.flag},
                                    d \in {"garbled", "noCompID", "badVersion", "invalid", "badHeader"}}
    \cup {[m EXCEPT !.defect = "garbled"] : m \in Sound({"Heartbeat"})}

\* Every defect of every type of message.
Broken(m) ==
  {[m EXCEPT !.defect = d] : d \in Defects \ IF m.possDup THEN {} ELSE {"noOrig", "lateOrig"}}
DefectMessages ==
  UNION {Broken(m) : m \in Sound(AdminTypes \ {"SequenceReset"}) \cup Apps
                             \cup {r \in Resets : r.num \in {r.seq, r.seq + 1}}}

\* Both: what the session's run receives.
SessionMessages == NumberingMessages \cup DefectMessages

\* What keeps a session alive or ends it.
TimerMessages == Logons({0}) \cup Sound({"Heartbeat", "Logout"}) \cup Apps

=============================================================================
