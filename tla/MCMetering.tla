----------------------------- MODULE MCMetering -----------------------------
(* Instances of Metering for TLC.                                            *)
EXTENDS Metering

Scope(events, time, tasks, capacity, batch, retention, sessions, online) ==
  [events |-> events, time |-> time, tasks |-> tasks, capacity |-> capacity, batch |-> batch,
   retention |-> retention, sessions |-> sessions, online |-> online]

\* Tasks that come and go while the agent is offline, with start hooks that are late, also
\* across reboots, replaced journals and crashes; restored databases; lost reports, sessions
\* and agents, expired rows and a full journal; reports put together while records are sealed.
MCScopes == {
  Scope({"late", "stop"}, 3, 1, 2, 3, 1, 0, 3),
  Scope({"late", "stop"}, 2, 2, 3, 3, 1, 0, 2),
  Scope({"late", "reboot", "corrupt", "exit"}, 3, 2, 3, 3, 1, 0, 3),
  Scope({"late", "crash"}, 3, 1, 2, 1, 1, 1, 3),
  Scope({"backup", "restore"}, 4, 1, 2, 2, 1, 0, 3),
  Scope({"crash", "expire", "dberror"}, 4, 1, 2, 1, 1, 1, 4),
  Scope({"crash", "dberror"}, 4, 1, 1, 1, 1, 1, 4),
  Scope({"lag", "dberror"}, 4, 1, 2, 1, 1, 1, 2)}

\* One task, and an agent that is online from the first record on.
MCRaceScopes == {Scope({}, 6, 1, 4, 1, 6, 0, 2)}
=============================================================================
