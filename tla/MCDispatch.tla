----------------------------- MODULE MCDispatch -----------------------------
(***************************************************************************)
(* Instances of Broker: planner p, planner q with the numbers of msg.py,   *)
(* units u1 and u2, clients z1 and z2 with uuid 0, and monitor mon.  Each  *)
(* scenario puts one thing beside an item of work: a second item while a   *)
(* unit and the planner register, a client with uuid 0, the console, and   *)
(* each of the other packages.                                             *)
(***************************************************************************)
EXTENDS Broker

CONSTANTS p, q, u1, u2, z1, z2, mon, i1, i2, o

Msg(type, id, from, src, tgt) ==
    [type |-> type, id |-> id, from |-> from, src |-> src, tgt |-> tgt]

Work1 == Msg("Work", i1, p, p, NoUuid)
Work2 == Msg("Work", i2, p, p, u1)

Scenario(ms, cs, there, joins) ==
    [script |-> ms, typed |-> cs, there |-> there, joins |-> joins]

Beside(other, there) == Scenario({Work1, other}, {}, there, {})

MCScenarios ==
    { Scenario({Work1, Work2}, {}, {u2, mon}, {p, u1}),
      Scenario({Work1, Work2}, {}, {p, u1, u2, mon}, {}),
      Scenario({Work1, Msg("NewTask", o, z1, NoUuid, NoUuid)}, {}, {p, mon}, {z1, z2, q}),
      Scenario({Work1}, {"1", "2"}, {p, u1, z1}, {}),
      Scenario({Work1}, {"3.1", "3.2", "3.3", "4"}, {p, u1, mon}, {u2}),
      Beside(Msg("RerouteWork", o, u1, u1, p), {p, u1, u2, mon}),
      Beside(Msg("MonitorRequest", o, mon, mon, NoUuid), {p, u1, mon}),
      Beside(Msg("UuidForUnitRequest", o, p, p, NoUuid), {p, u1, u2}),
      Beside(Msg("ConfigurationAction", o, p, p, u1), {p, u1, mon}),
      Beside(Msg("Text", o, u1, u1, p), {p, u1, mon}),
      Beside(Msg("Text", o, u1, u1, NoUuid), {p, u1}) }
=============================================================================
