------------------------------ MODULE DeviceApps ------------------------------
(***************************************************************************)
(* What class Device (Devices/Device.h) promises of the commands on an app *)
(* whatever the device is: the methods that Device.m leaves to be          *)
(* overridden and Simulator.m and PhysicalDevice.m override.               *)
(*                                                                         *)
(* A command may be refused or fail at any time, having changed the app as *)
(* far as such a command may; but an answer EverythingOkay means that at   *)
(* some moment between the call and the answer what the command promises   *)
(* was so, and that the command has not touched the app since.             *)
(***************************************************************************)
CONSTANTS Devices, Clients,
          Versions,   \* versions of the app
          None        \* no version: the app is not installed

VARIABLES bundle,   \* the version installed on each device
          op,       \* the command of each client
          on, of,   \* the device it names, and the version to install
          served,   \* clients to whom what it promises has been so, and the
                    \* answer is still due
          answer    \* its exit code

vars == <<bundle, op, on, of, served, answer>>

Commands == {"install", "uninstall", "erase", "launchApp", "other"}

\* iOSReturnStatusCode, as far as the commands return it; a raise is no code.
Answers == {"EverythingOkay", "GenericFailure", "False", "InternalError", "Raised"}

Init ==
  /\ bundle \in [Devices -> Versions \cup {None}]
  /\ op = [c \in Clients |-> "none"]
  /\ on \in [Clients -> Devices]
  /\ of = [c \in Clients |-> None]
  /\ served = {}
  /\ answer = [c \in Clients |-> "none"]

\* What EverythingOkay promises.
Promise(c) == /\ op[c] = "install" => bundle[on[c]] = of[c]
              /\ op[c] \in {"uninstall", "erase"} => bundle[on[c]] = None
              /\ op[c] = "launchApp" => bundle[on[c]] # None

Begin(c) ==
  /\ op[c] = "none"
  /\ \E command \in Commands : op' = [op EXCEPT ![c] = command]
  /\ \E d \in Devices : on' = [on EXCEPT ![c] = d]
  /\ \E v \in Versions \cup {None} : of' = [of EXCEPT ![c] = v]
  /\ UNCHANGED <<bundle, served, answer>>

\* Installing removes the old version before it puts the new one there.
Touches(c) ==
  \/ UNCHANGED bundle
  \/ /\ op[c] \in {"install", "uninstall", "erase"} /\ c \notin served
     /\ bundle' = [bundle EXCEPT ![on[c]] = None]
  \/ /\ op[c] = "install" /\ c \notin served
     /\ bundle' = [bundle EXCEPT ![on[c]] = of[c]]

Works(c) == UNCHANGED <<served, answer>>

Serves(c) == /\ Promise(c)'
             /\ served' = served \cup {c}
             /\ UNCHANGED answer

Replies(c) ==
  /\ \E code \in Answers : /\ code = "EverythingOkay" => c \in served \/ Promise(c)'
                           /\ answer' = [answer EXCEPT ![c] = code]
  /\ served' = served \ {c}

Work(c) ==
  /\ op[c] # "none" /\ answer[c] = "none"
  /\ Touches(c)
  /\ Works(c) \/ Serves(c) \/ Replies(c)
  /\ UNCHANGED <<op, on, of>>

\* The user deletes the app.
UserRemoves(d) ==
  /\ bundle' = [bundle EXCEPT ![d] = None]
  /\ UNCHANGED <<op, on, of, served, answer>>

Next == \/ \E c \in Clients : Begin(c) \/ Work(c)
        \/ \E d \in Devices : UserRemoves(d)

Spec == Init /\ [][Next]_vars
=============================================================================
