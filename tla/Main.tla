-------------------------------- MODULE Main --------------------------------
(***************************************************************************)
(* main.cpp: the command line decides whether the process is a server, and *)
(* with which event managers, or a client, and with how many sockets; then *)
(* one of them runs to its end.                                             *)
(***************************************************************************)
EXTENDS NetServerManagers, NetClient

CONSTANT MaxArgs   (* bound: arguments on the command line                 *)

(* The largest number of sockets a command line asks for is within bounds. *)
ASSUME MainAssumption == MaxArgs \in Nat /\ MaxClients >= 2

VARIABLES
  args,              (* argv without the program's name; <<>> once read    *)
  serverTypeOption,
  program            (* "main", "server", "client", "aborted"              *)

vars == <<serverVars, sockets, managersVars, clientVars, args, serverTypeOption, program>>

Options ==
  {"-s", "--server", "-c", "--client", "-client", "--poll", "--select", "--iocp"}
Texts == Options \cup {"0", "2", "many"}

Init ==
  /\ args \in UNION {[1..n -> Texts] : n \in 0..MaxArgs}
  /\ serverTypeOption = 3
  /\ program = "main"
  /\ ManagersIdle /\ SocketsInit /\ ClientIdle

-----------------------------------------------------------------------------
(* Reading the command line: main's conditions, in its order.              *)
cmdOptionExists(option) == option \in ToSet(args)

(* The argument after the first occurrence of the option, if there is one  *)
getCmdOption(option) ==
  LET at == {SelectInSeq(args, LAMBDA a : a = option)} \cap 1..(Len(args) - 1) IN
  {args[k + 1] : k \in at}

(* std::stoi of the texts it accepts; of any other it throws, and nobody   *)
(* catches it.                                                              *)
stoi == [text \in {"0", "2"} |-> IF text = "0" THEN 0 ELSE 2]

IsServer == cmdOptionExists("-s") \/ cmdOptionExists("--server")
IsClient == ~IsServer /\ (cmdOptionExists("-c") \/ cmdOptionExists("--client"))

(* After --client, main looks for "-client".                                *)
CountText == getCmdOption(IF cmdOptionExists("-c") THEN "-c" ELSE "-client")

(* A slip a mutated run uses: the count is not clamped.                     *)
CountUnclamped == IF CountText = {} THEN 1 ELSE Max({stoi[text] : text \in CountText})

(* One socket unless more are asked for                                     *)
Count == Max({1} \cup {stoi[text] : text \in CountText})

ServerType ==
  CASE cmdOptionExists("--poll")   -> 1
    [] cmdOptionExists("--select") -> 2
    [] OTHER                       -> 3

StartServer ==
  /\ program = "main"
  /\ ~IsClient
  /\ program' = "server"
  /\ serverTypeOption' = ServerType
  /\ args' = <<>>
  /\ UNCHANGED <<serverVars, sockets, managersVars, clientVars>>

StartClient ==
  /\ program = "main"
  /\ IsClient
  /\ CountText \subseteq DOMAIN stoi
  /\ program' = "client"
  /\ clientPhase' = "Connect"
  /\ clientCount' = Count
  /\ args' = <<>>
  /\ UNCHANGED <<serverVars, sockets, managersVars, netVars, storage, clients, receiveVars,
                 serverTypeOption>>

CountThrows ==
  /\ program = "main"
  /\ IsClient
  /\ ~(CountText \subseteq DOMAIN stoi)
  /\ program' = "aborted"
  /\ args' = <<>>
  /\ UNCHANGED <<serverVars, sockets, managersVars, clientVars, serverTypeOption>>

(* PollServer and SelectServer add a second event manager, IOCPServer does *)
(* not.                                                                     *)
ManagersOfType == IF serverTypeOption = 3 THEN 1 ELSE 2

ServerRuns ==
  /\ program = "server"
  /\ ManagersNext
  /\ phase' = "Setup" => Len(netEventManagers') <= ManagersOfType
  /\ phase' = "Loop" => Len(netEventManagers') = ManagersOfType
  /\ UNCHANGED <<clientVars, args, serverTypeOption, program>>

ClientRuns ==
  /\ program = "client"
  /\ ClientNext
  /\ UNCHANGED <<serverVars, managersVars, args, serverTypeOption, program>>

Next == StartServer \/ StartClient \/ CountThrows \/ ServerRuns \/ ClientRuns

MainSpec == Init /\ [][Next]_vars

(* The shape of the state: whatever the command line is, the driver that   *)
(* runs was given a number of managers, or of sockets, it can work with.    *)
MainTypeOK ==
  /\ ManagersTypeOK /\ ClientTypeOK /\ SocketsTypeOK
  /\ program \in {"main", "server", "client", "aborted"}
  /\ serverTypeOption \in 1..3
  /\ args \in Seq(Texts)

=============================================================================
