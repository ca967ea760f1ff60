---------------------------- MODULE MCStudioJobs ----------------------------
(* Small instances of StudioJobs: target keys for one or two jobs.        *)
EXTENDS StudioJobs

CONSTANTS t1, gpu

Key(kind, unit) == [kind |-> kind, trainer |-> t1, unit |-> unit]

(* two jobs of one trainer *)
RemoteTargets == <<Key("remote", gpu), Key("remote", NoDevice)>>

(* two local jobs compete for the machine *)
LocalTargets == <<Key("local", NoDevice), Key("local", NoDevice)>>

(* one remote job *)
OneRemote == <<Key("remote", gpu)>>

=============================================================================
