-------------------------------- MODULE Plant --------------------------------
(***************************************************************************)
(* The factories, machines and sensors of a company                        *)
(* (services/manufacturing.py, services/sensors.py, their repositories and *)
(* the routes factories, machines and sensors).  A row is never removed: a *)
(* delete marks it, and the machines of a factory with it; the sensors of  *)
(* a machine keep their rows as they are.                                  *)
(*                                                                         *)
(* A request reads the rows it depends on and decides, then writes in a    *)
(* step of its own; a delete depends on nothing it read.  Names are        *)
(* normalized already, and columns no decision looks at are left out.      *)
(***************************************************************************)
EXTENDS Integers, FiniteSets, UnitOfWork

CONSTANTS
    Factories, Machines, Sensors,    \* identifiers of rows
    MachineNames, SensorNames,
    Limits,                          \* the values a range may begin and end with
    MachineRows, SensorRows,         \* the rows the plant starts with
    Requests,
    MaxWrites,                       \* bound: writes to the plant
    None

VARIABLES
    factory,    \* "absent", "live" or "deleted"
    machine,
    sensor,
    writes,     \* writes to the plant so far
    request     \* the local state of every request

plantVars == <<factory, machine, sensor, writes>>

NoMachine == [state |-> "absent", factory |-> None, name |-> None]

NoSensor == [state |-> "absent", machine |-> None, name |-> None, low |-> 0, high |-> 0]

NoRequest == [pc |-> "free"]

MachineRow(f, name) == [state |-> "live", factory |-> f, name |-> name]

SensorRow(m, name, low, high) ==
    [state |-> "live", machine |-> m, name |-> name, low |-> low, high |-> high]

\* A company at work.
PlantInit ==
    /\ factory \in [Factories -> {"absent", "live"}]
    /\ machine = MachineRows /\ sensor = SensorRows
    /\ \A m \in Machines : machine[m] # NoMachine => factory[machine[m].factory] = "live"
    /\ writes = 0

Free(r) == request[r] = NoRequest

\* Another request works on the row.
Shared(id) == \E r \in Requests : ~Free(r) /\ request[r].id = id

Begin(r, record) ==
    /\ Free(r)
    /\ request' = [request EXCEPT ![r] = record]

Done(r) == request' = [request EXCEPT ![r] = NoRequest]

\* A request that is to write "new" over the row it read.
Edit(pc, id, read, new) == [pc |-> pc, id |-> id, read |-> read, new |-> new]

Count == writes' = writes + 1

\* The bound leaves room for what is under way.
Room == writes + Cardinality({r \in Requests : ~Free(r)}) < MaxWrites

-----------------------------------------------------------------------------
(* Factories and machines. *)

create_factory ==
    /\ Room /\ Count
    /\ \E f \in Factories :
         factory[f] = "absent" /\ factory' = [factory EXCEPT ![f] = "live"]
    /\ UNCHANGED <<machine, sensor, request>>

WithoutItsMachines(f) == UNCHANGED machine

soft_delete_factory(f) ==
    machine' = [m \in Machines |->
        IF machine[m].factory = f THEN [machine[m] EXCEPT !.state = "deleted"] ELSE machine[m]]

delete_factory ==
    /\ Room /\ Count
    /\ \E f \in Factories :
         /\ factory[f] = "live"
         /\ factory' = [factory EXCEPT ![f] = "deleted"]
         /\ soft_delete_factory(f)
    /\ UNCHANGED <<sensor, request>>

delete_machine ==
    /\ Room /\ Count
    /\ \E m \in Machines :
         /\ machine[m].state = "live"
         /\ machine' = [machine EXCEPT ![m].state = "deleted"]
    /\ UNCHANGED <<factory, sensor, request>>

\* The factory of a new machine exists and is not deleted ...
ReadFactory(r) ==
    /\ Room
    /\ \E m \in Machines, f \in Factories, name \in MachineNames :
         /\ machine[m] = NoMachine /\ ~Shared(m) /\ factory[f] = "live"
         /\ Begin(r, Edit("machine", m, NoMachine, MachineRow(f, name)))
    /\ UNCHANGED plantVars

\* ... and so is the one a machine moves to.
ReadMachine(r) ==
    /\ Room
    /\ \E m \in Machines, f \in Factories, name \in MachineNames :
         /\ machine[m].state = "live"
         /\ f = machine[m].factory \/ factory[f] = "live"
         /\ Begin(r, Edit("machine", m, machine[m], MachineRow(f, name)))
    /\ UNCHANGED plantVars

\* create_machine and update_machine.
write_machine(r) ==
    /\ request[r].pc = "machine"
    /\ Count
    /\ machine' = [machine EXCEPT ![request[r].id] = Flush(@, request[r].read, request[r].new)]
    /\ Done(r)
    /\ UNCHANGED <<factory, sensor>>

-----------------------------------------------------------------------------
(* Sensors. *)

\* The unique index of names on a machine counts deleted sensors too.
Taken(id, row) ==
    \E s \in Sensors \ {id} : sensor[s].machine = row.machine /\ sensor[s].name = row.name

NoRangeCheck(low, high) == TRUE

_validate_range(low, high) == low < high

ReadNewSensor(r) ==
    /\ Room
    /\ \E s \in Sensors, m \in Machines, name \in SensorNames, low, high \in Limits :
         LET row == SensorRow(m, name, low, high)
         IN /\ sensor[s] = NoSensor /\ ~Shared(s) /\ machine[m].state = "live"
            /\ _validate_range(low, high) /\ ~Taken(s, row)
            /\ Begin(r, Edit("sensor", s, NoSensor, row))
    /\ UNCHANGED plantVars

\* A request that names one end of the range checks it with the end it read.
ReadSensor(r) ==
    /\ Room
    /\ \E s \in Sensors, m \in Machines, name \in SensorNames, low, high \in Limits :
         LET row == SensorRow(m, name, low, high)
         IN /\ sensor[s].state = "live"
            /\ m = sensor[s].machine \/ machine[m].state = "live"
            /\ _validate_range(low, high)
            /\ <<m, name>> # <<sensor[s].machine, sensor[s].name>> => ~Taken(s, row)
            /\ row # sensor[s]
            /\ Begin(r, Edit("sensor", s, sensor[s], row))
    /\ UNCHANGED plantVars

\* create_sensor and update_sensor: the index may still refuse the row.
write_sensor(r) ==
    /\ request[r].pc = "sensor"
    /\ LET id == request[r].id
           row == Flush(sensor[id], request[r].read, request[r].new)
       IN IF Taken(id, row)
          THEN UNCHANGED <<sensor, writes>>
          ELSE sensor' = [sensor EXCEPT ![id] = row] /\ Count
    /\ Done(r)
    /\ UNCHANGED <<factory, machine>>

delete_sensor ==
    /\ Room /\ Count
    /\ \E s \in Sensors :
         /\ sensor[s].state = "live"
         /\ sensor' = [sensor EXCEPT ![s].state = "deleted"]
    /\ UNCHANGED <<factory, machine, request>>

PlantNext ==
    \/ create_factory \/ delete_factory \/ delete_machine \/ delete_sensor
    \/ \E r \in Requests :
         \/ ReadFactory(r) \/ ReadMachine(r) \/ write_machine(r)
         \/ ReadNewSensor(r) \/ ReadSensor(r) \/ write_sensor(r)

-----------------------------------------------------------------------------

PlantTypeOK ==
    /\ factory \in [Factories -> {"absent", "live", "deleted"}]
    /\ machine \in [Machines -> [state : {"absent", "live", "deleted"},
                                 factory : Factories \cup {None},
                                 name : MachineNames \cup {None}]]
    /\ sensor \in [Sensors -> [state : {"absent", "live", "deleted"},
                               machine : Machines \cup {None},
                               name : SensorNames \cup {None},
                               low : Limits \cup {0}, high : Limits \cup {0}]]
    /\ writes \in 0 .. MaxWrites

Orphan(m) == machine[m].state = "live" /\ factory[machine[m].factory] = "deleted"

\* A live machine is in a live factory.  One is left in a deleted factory only by
\* a request that had found the factory live, and wrote after the delete.
OrphansComeLate ==
    [][\A m \in Machines : Orphan(m)' /\ ~Orphan(m) =>
        \E r \in Requests :
            /\ request[r].pc = "machine" /\ request[r].id = m /\ request'[r] = NoRequest
            /\ request[r].new.factory # request[r].read.factory]_<<plantVars, request>>

\* A sensor's range is not empty.  It is turned over only by a request that wrote
\* one end of the range while the other was no longer what it had read.
RangesAreOrdered ==
    [][\A s \in Sensors :
        sensor'[s].low >= sensor'[s].high /\ sensor[s].low < sensor[s].high =>
        \E r \in Requests :
            /\ request[r].pc = "sensor" /\ request[r].id = s
            /\ <<sensor[s].low, sensor[s].high>> # <<request[r].read.low, request[r].read.high>>
       ]_<<plantVars, request>>
=============================================================================
