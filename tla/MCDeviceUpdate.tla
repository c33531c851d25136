----------------------------- MODULE MCDeviceUpdate -----------------------------
(* DeviceUpdate on two devices, three firmware and two DDP packages. *)
EXTENDS DeviceUpdate

CONSTANTS d1, d2, u1, u2, uD, f1, f2, f3, p1, p2

\* f1 and f2 have their tool at the same place, f3 elsewhere; f3 brings a second
\* .pkg along; p2 is not whole.
MCLayout == [a \in Archives |->
  CASE a = f1 -> [format |-> "tar", inner |-> 0, whole |-> TRUE, tools |-> {1}, pkgs |-> {}]
    [] a = f2 -> [format |-> "tar", inner |-> 0, whole |-> TRUE, tools |-> {1}, pkgs |-> {}]
    [] a = f3 -> [format |-> "tar", inner |-> 0, whole |-> TRUE, tools |-> {2}, pkgs |-> {1}]
    [] a = p2 -> [format |-> "tar", inner |-> 0, whole |-> FALSE, tools |-> {}, pkgs |-> {2}]
    [] OTHER -> [format |-> "zip", inner |-> 1, whole |-> TRUE, tools |-> {}, pkgs |-> {2}]]

Asks(f, fs, p, ps) == [fw |-> f, fwSum |-> fs, ddp |-> p, ddpSum |-> ps]
Nothing == Asks(None, None, None, None)

MCInitWant == [d \in Devices |-> IF d = d1 THEN Asks(u1, f1, None, None)
                                 ELSE Asks(u2, None, None, None)]

MCWants ==
  {MCInitWant, [d \in Devices |-> IF d = d1 THEN Asks(u2, None, uD, None) ELSE Nothing]}

MCServer == [u \in Urls |-> CASE u = u1 -> f1 [] u = u2 -> f2 [] OTHER -> p1]
\* A package that has a checksum is replaced, and one that has none.
MCPublications == {<<u1, f2>>, <<u2, f3>>, <<uD, p2>>}
=============================================================================
