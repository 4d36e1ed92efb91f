----------------------------- MODULE MCMachine -----------------------------
(* The parts of the machine's state that share nothing, checked side by    *)
(* side: a behaviour is one of `part` alone.                               *)
EXTENDS MCFileLock, WorkspaceRegistry, MachineLifetime, RuntimeInstall, ToolCalls

VARIABLE part

machineVars == <<vars, registryVars, lifetimeVars, installVars, callVars>>

MCMachineInit ==
    /\ part \in {"lock", "registry", "lifetime", "install", "calls"}
    /\ MCInit /\ RegistryInit /\ LifetimeInit /\ InstallInit /\ ToolCallsInit
    /\ part # "lock" => lock = NoFile
    /\ part # "install" => launcher = "missing"

MCMachineNext ==
    /\ part' = part
    /\ \/ /\ part = "lock" /\ MCNext
          /\ UNCHANGED <<registryVars, lifetimeVars, installVars, callVars>>
       \/ /\ part = "registry" /\ RegistryNext
          /\ UNCHANGED <<vars, lifetimeVars, installVars, callVars>>
       \/ /\ part = "lifetime" /\ LifetimeNext
          /\ UNCHANGED <<vars, registryVars, installVars, callVars>>
       \/ /\ part = "install" /\ InstallNext
          /\ UNCHANGED <<vars, registryVars, lifetimeVars, callVars>>
       \/ /\ part = "calls" /\ ToolCallsNext
          /\ UNCHANGED <<vars, registryVars, lifetimeVars, installVars>>

MCMachineSpec == MCMachineInit /\ [][MCMachineNext]_<<part, machineVars>>
=============================================================================
