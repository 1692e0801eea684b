--------------------------- MODULE MCStateLoader ----------------------------
(* An instance of StateLoader for TLC.                                     *)
EXTENDS StateLoader

CONSTANTS n1, n2

Dep(c, dn, m, ns, ms) ==
    [cid |-> c, name |-> dn, meta |-> m, nets |-> ns, machines |-> ms]
NetW(t, p, s, a, w, q) ==
    [type |-> t, name |-> "net", parses |-> p, subnet |-> s, access |-> a,
     wg |-> w, port |-> q]
Mach(t, f, m) == [type |-> t, net |-> "net", form |-> f, master |-> m]

AccessNet == Dep(1, "net", "own", <<NetW("network", TRUE, "s1", n1, TRUE, TRUE)>>, <<>>)
PortlessNet == Dep(2, "net", "chain", <<NetW("network", TRUE, "s2", n1, TRUE, FALSE)>>, <<>>)
PlainNet == Dep(3, "net", "own", <<NetW("network", TRUE, "s2", NoNode, FALSE, TRUE)>>, <<>>)
LightNet == Dep(4, "net", "own", <<NetW("network-light", TRUE, "s1", NoNode, FALSE, FALSE)>>, <<>>)
OddNet == Dep(5, "net", "own", <<NetW("network", FALSE, "s1", NoNode, FALSE, TRUE)>>, <<>>)
NoMeta == Dep(6, "vm", "bad", <<>>, <<>>)
FlatVm == Dep(7, "vm", "own", <<>>, <<Mach("zmachine", "flat", FALSE)>>)
ChainVm == Dep(8, "vm", "chain", <<>>, <<Mach("zmachine-light", "flat", FALSE)>>)
MasterVm == Dep(9, "vm", "own", <<>>, <<Mach("zmachine", "nested", FALSE), Mach("zmachine", "nested", TRUE)>>)
WorkerVm == Dep(10, "vm", "own", <<>>, <<Mach("zmachine", "nested", FALSE)>>)

MCIds == 1 .. 10
MCCatalog == {AccessNet, PortlessNet, PlainNet, LightNet, OddNet, NoMeta, FlatVm,
              ChainVm, MasterVm, WorkerVm}

Hold(s, t) == [n \in Nodes |-> IF n = n1 THEN s ELSE t]
MCGrids ==
    {Hold(<<AccessNet, FlatVm>>, <<AccessNet>>), Hold(<<AccessNet>>, <<PlainNet, FlatVm>>),
     Hold(<<PortlessNet, FlatVm>>, <<LightNet>>), Hold(<<PortlessNet>>, <<AccessNet, FlatVm>>),
     Hold(<<LightNet, FlatVm>>, <<OddNet>>), Hold(<<PlainNet, LightNet>>, <<LightNet, ChainVm>>),
     Hold(<<PlainNet, AccessNet>>, <<AccessNet, PlainNet>>),
     Hold(<<MasterVm, PlainNet>>, <<WorkerVm, AccessNet>>),
     Hold(<<MasterVm, AccessNet>>, <<WorkerVm>>), Hold(<<MasterVm, PlainNet>>, <<MasterVm, PlainNet>>),
     Hold(<<NoMeta, PlainNet>>, <<FlatVm>>)}
=============================================================================
