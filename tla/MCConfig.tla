------------------------------ MODULE MCConfig ------------------------------
(* An instance of Config: the data task, the shell and the DA task. *)
EXTENDS Config, TLC
CONSTANTS data, shell, DA
MCPrio == data :> 5 @@ shell :> 6 @@ DA :> 13
MCOps == data :> {"set_alarm", "factory_resrt", "set_config_report", "get_config"}
         @@ shell :> {"set_sensor", "get_Monitor"} @@ DA :> {"get_config", "set_sys_sensor_State"}
Good == [value |-> 1, recover |-> 0]
Flat == [value |-> 1, recover |-> 1]
Bad  == [value |-> 0, recover |-> 1]
\* Two items, and two of which the second is refused when the first is written
MCBatches == {<<Flat, Good>>, <<Flat, Bad>>}
=============================================================================
