------------------------------ MODULE MCSession -------------------------------
EXTENDS SessionProperties

CONSTANTS i1, i2, p1, full, malformed

MCServiceInfos ==
  LET planner == [apiVersion |-> "v1", schemaVersion |-> "0.1.0",
                  supportedSchemaVersions |-> {"0.1.0"},
                  capabilities |-> {"intentParse", "resourcePlan", "planExplanation"},
                  safety |-> {"plannerOnly"}]
  IN {planner,
      [planner EXCEPT !.capabilities = @ \cup {"installExecution"}],
      [planner EXCEPT !.apiVersion = "v2"]}

MCDevices == {[hints |-> {"win", "win64"}, tauri |-> TRUE], [hints |-> {}, tauri |-> FALSE]}
===============================================================================
