---------------------------- MODULE MCMasterData ----------------------------
(***************************************************************************)
(* Instances of MasterData.  Requests about rows of different kinds meet   *)
(* only where an appointment or a skill refers to both, so each behaviour  *)
(* is about the rows of one kind, or about one such pair and the requests  *)
(* that can come between; two requests at a time, any number in all.       *)
(***************************************************************************)
EXTENDS MasterData, TLC

CONSTANTS b1, b2, t1, t2, s1, v1, z1, z2, q1, q2

On(R, ops) == {c \in R : c.op \in ops}

MCScenes ==
  [bays        |-> ServiceBayRoutes,
   technicians |-> On(TechnicianRoutes, Crud),
   vehicles    |-> VehicleRoutes,
   tenants     |-> TenantRoutes,
   types       |-> ServiceTypeRoutes,
   skills      |-> On(TechnicianRoutes, {"get", "delete", "addSkill", "dropSkill"})
                     \cup On(ServiceTypeRoutes, {"delete"}),
   booking     |-> AppointmentRoutes \cup On(VehicleRoutes, {"delete"})
                     \cup On(ServiceTypeRoutes, {"get", "delete"})]
=============================================================================
