----------------------- MODULE MCConfigurationParser -----------------------
(***************************************************************************)
(* Instances of ConfigurationParser for TLC: two interfaces, two relay     *)
(* slots, packets up to 64 bytes and reports up to 300.                    *)
(***************************************************************************)
EXTENDS ConfigurationParser

Iface(n, alt, class) == <<9, 4, n, alt, 1, class, 0, 0, 0>>
HidOf(length) == <<9, 33, 17, 1, 0, 1, 34, length % 256, length \div 256>>
In(number, attributes, mps, interval) ==
    <<7, 5, 128 + number, attributes, mps % 256, mps \div 256, interval>>
Out(number, mps, interval) == <<7, 5, number, 3, mps, 0, interval>>

\* A HID descriptor with two subordinates, and one that names its report twice.
HidWithPhysical == <<12, 33, 17, 1, 0, 2, 35, 8, 0, 34, 5, 0>>
HidTwice == <<12, 33, 17, 1, 0, 2, 34, 5, 0, 34, 6, 0>>

\* The nine-byte audio form of an endpoint descriptor.
AudioIn(number, interval, last) == <<9, 5, 128 + number, 3, 8, 0, interval, 0, last>>

\* A configuration descriptor among the others.
SecondHeader(total, n) == <<9, 2, total % 256, 0, n, 1, 0, 128, 50>>

MCStarts ==
    {<<>>,
     <<Iface(0, 0, 3), HidOf(52)>>,
     <<Iface(0, 0, 3), HidOf(52), In(1, 3, 8, 10)>>,
     <<Iface(0, 0, 1), Iface(0, 1, 1), Iface(3, 0, 3), HidOf(260), In(2, 3, 64, 4)>>,
     <<Iface(0, 0, 3), HidOf(5), In(1, 3, 8, 1), Iface(1, 0, 3), HidWithPhysical>>}

MCDescriptors ==
    {Iface(1, 0, 3), Iface(1, 1, 3), HidOf(7), HidOf(301), HidTwice,
     In(1, 3, 8, 10), In(3, 3, 64, 1), In(2, 3, 65, 4),
     AudioIn(4, 2, 0), AudioIn(2, 0, 7), Out(2, 8, 1),
     SecondHeader(50, 2), <<2, 255>>, <<1, 4>>, <<8, 4, 1, 0, 1, 3, 0, 0>>}

MCMisstated == {-1, 0, 1}
=============================================================================
