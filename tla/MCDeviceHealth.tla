---------------------------- MODULE MCDeviceHealth ----------------------------
(***************************************************************************)
(* Instances of DeviceHealth: one device under every kind of message, two  *)
(* devices under a chosen mix.                                             *)
(***************************************************************************)
EXTENDS DeviceHealth, TLC

AllTraffic == {"conf", "state", "ping", "bridge", "homie", "removal"}

\* A configuration for every set of devices.
AnyDevices == SUBSET Devices

\* A device may announce that it has no actuators at all.
CONSTANT lamps
WithEmpty == {NoActuators, lamps}

DeviceSymmetry == Permutations(Devices)

\* Actuator lists are only compared with each other.
TopologySymmetry == Permutations(Topologies)

=============================================================================
