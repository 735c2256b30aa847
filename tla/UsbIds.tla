------------------------------- MODULE UsbIds -------------------------------
(* The tables of device ids that the virtual-USB generators draw from          *)
(* (sys-linux-specifications/init_vusb_ids.go).  A table is sorted by match    *)
(* flags, then vendor; what decides the fate of a drawn id is which flags it   *)
(* has and whether two ids share a vendor.  So each definition below stands for *)
(* contiguous records with the same flags (and, where one vendor fills the     *)
(* block, the same vendor), and keeps the first and the last of them and any    *)
(* that differs in kind.  Of a block of more than 75 records it stands for 75,  *)
(* mostly the first; the others are left out.                                  *)
(* Vendors that come with several flag words get blocks of their own.          *)
EXTENDS Integers

MatchFlags == {"VENDOR", "PRODUCT", "DEV_LO", "DEV_HI", "DEV_CLASS", "DEV_SUBCLASS",
               "DEV_PROTOCOL", "INT_CLASS", "INT_SUBCLASS", "INT_PROTOCOL", "INT_NUMBER"}

UsbDeviceID(flags, vendor, product, lo, hi, device, interface) ==
    [flags |-> flags, idVendor |-> vendor, idProduct |-> product,
     bcdLo |-> lo, bcdHi |-> hi,
     bDeviceClass |-> device[1], bDeviceSubClass |-> device[2],
     bDeviceProtocol |-> device[3],
     bInterfaceClass |-> interface[1], bInterfaceSubClass |-> interface[2],
     bInterfaceProtocol |-> interface[3], bInterfaceNumber |-> interface[4]]

Device == {"VENDOR", "PRODUCT"}
NoClass == <<0, 0, 0>>
NoInterface == <<0, 0, 0, 0>>

\* The flag words of the table: 0x3, 0x403, 0xf, and those with an interface class.
Product(v, p) == UsbDeviceID(Device, v, p, 0, 0, NoClass, NoInterface)
Numbered(v, p, n) ==
    UsbDeviceID(Device \cup {"INT_NUMBER"}, v, p, 0, 0, NoClass, <<0, 0, 0, n>>)
Revision(v, p, lo, hi) ==
    UsbDeviceID(Device \cup {"DEV_LO", "DEV_HI"}, v, p, lo, hi, NoClass, NoInterface)
Interface(flags, v, p, c, s, q) ==
    UsbDeviceID(flags, v, p, 0, 0, NoClass, <<c, s, q, 0>>)
Class == {"INT_CLASS"}
Pair == {"INT_CLASS", "INT_SUBCLASS"}
Ends == {"INT_CLASS", "INT_PROTOCOL"}
Triple == {"INT_CLASS", "INT_SUBCLASS", "INT_PROTOCOL"}

(* Ids without an interface class.                                             *)
Drivers == {UsbDeviceID({}, 0, 0, 0, 0, NoClass, NoInterface),
            UsbDeviceID({"VENDOR"}, 4306, 0, 0, 0, NoClass, NoInterface)}
FirstProducts == {Product(0, 0), Product(8193, 15383)}
FtdiProducts == {Product(1027, 0), Product(1027, 57136)}
MoreProducts == {Product(2051, 17168), Product(2821, 6059)}
SierraProducts == {Product(4505, 36864), Product(4505, 36949)}
QualcommProducts == {Product(1478, 24576), Product(1478, 37114)}
ZteProducts == {Product(6610, 1062), Product(6610, 65523)}

FirstNumbered == {Numbered(8193, 32278, 3), Numbered(3901, 26794, 10)}
SierraNumbered == {Numbered(4505, 36865, 0), Numbered(4505, 26816, 10)}
QualcommNumbered == {Numbered(1478, 28672, 0), Numbered(1478, 36935, 3)}
ZteNumbered == {Numbered(6610, 512, 1), Numbered(6610, 65523, 3)}

FirstRevisions == {Revision(16642, 4128, 256, 256), Revision(9527, 4200, 0, 39321)}
HuaweiRevisions == {Revision(4817, 4097, 0, 0), Revision(4817, 5183, 0, 0)}
LastRevisions == {Revision(6610, 4645, 0, 65535), Revision(5118, 13824, 256, 256)}

DeviceClasses ==
    {UsbDeviceID({"DEV_CLASS"}, 0, 0, 0, 0, <<9, 0, 0>>, NoInterface),
     UsbDeviceID({"DEV_CLASS"} \cup Device, 1293, 289, 0, 0, NoClass, NoInterface),
     UsbDeviceID({"DEV_SUBCLASS"} \cup Device, 2045, 1, 0, 0, <<0, 2, 0>>, NoInterface),
     UsbDeviceID({"DEV_CLASS", "DEV_SUBCLASS", "DEV_PROTOCOL"}, 0, 0, 0, 0,
                 <<7, 1, 1>>, NoInterface),
     UsbDeviceID({"DEV_CLASS", "DEV_SUBCLASS", "DEV_PROTOCOL"} \cup Device, 1394, 51969,
                 0, 0, <<255, 0, 0>>, NoInterface)}

(* Ids with an interface class: for any vendor, for one vendor, for one product. *)
InterfaceClasses == {Interface(Class, 0, 0, 3, 0, 0), Interface(Pair, 0, 0, 1, 1, 0),
                     Interface(Triple, 0, 0, 2, 2, 0), Interface(Triple, 0, 0, 254, 3, 1)}
VendorClasses == {Interface({"VENDOR"} \cup Class, 1410, 0, 255, 0, 0),
                  Interface({"VENDOR"} \cup Pair, 1057, 0, 2, 254, 0)}
FirstVendorTriples == {Interface({"VENDOR"} \cup Triple, 2821, 0, 255, 1, 1),
                       Interface({"VENDOR"} \cup Triple, 1452, 0, 255, 253, 1)}
HuaweiTriples == {Interface({"VENDOR"} \cup Triple, 4817, 0, 2, 6, 255),
                  Interface({"VENDOR"} \cup Triple, 4817, 0, 255, 2, 10)}
LastVendorTriples == {Interface({"VENDOR"} \cup Triple, 6353, 0, 255, 80, 1),
                      Interface({"VENDOR"} \cup Triple, 4607, 0, 255, 93, 129)}
ProductClasses == {Interface(Device \cup Class, 8193, 32001, 255, 0, 0),
                   Interface(Device \cup Class, 4710, 4105, 255, 0, 0)}
TelitClasses == {Interface(Device \cup Class, 7111, 6401, 255, 0, 0),
                 Interface(Device \cup Class, 7111, 4227, 255, 0, 0)}
ProductPairs == {Interface(Device \cup Pair, 1054, 16533, 1, 1, 0),
                 Interface(Device \cup Pair, 1133, 2294, 1, 1, 0)}
AppleEnds == {Interface(Device \cup Ends, 1452, 778, 3, 0, 2),
              Interface(Device \cup Ends, 1452, 658, 3, 0, 2)}
FirstTriples == {Interface(Device \cup Triple, 8193, 18944, 255, 255, 0),
                 Interface(Device \cup Triple, 8222, 4344, 255, 255, 255)}
NokiaTriples == {Interface(Device \cup Triple, 1057, 1, 2, 2, 255),
                 Interface(Device \cup Triple, 1057, 252, 2, 2, 255)}
MoreTriples == {Interface(Device \cup Triple, 5421, 784, 14, 1, 0),
                Interface(Device \cup Triple, 1133, 2246, 255, 1, 0)}
ZteTriples == {Interface(Device \cup Triple, 6610, 512, 255, 255, 255),
               Interface(Device \cup Triple, 6610, 33, 255, 255, 255)}
LastTriples == {Interface(Device \cup Triple, 3027, 1365, 14, 1, 0),
                Interface(Device \cup Triple, 1008, 41757, 255, 6, 18)}
RevisedInterfaces ==
    {UsbDeviceID(Device \cup Triple \cup {"DEV_HI"}, 6571, 4096, 0, 294, NoClass, <<14, 1, 0, 0>>),
     UsbDeviceID(Device \cup Class \cup {"DEV_LO", "DEV_HI"}, 1917, 25210, 1, 1, NoClass,
                 <<3, 0, 0, 0>>),
     UsbDeviceID(Device \cup Triple \cup {"DEV_LO", "DEV_HI"}, 3761, 28679, 521, 521, NoClass,
                 <<255, 0, 255, 0>>),
     UsbDeviceID(Device \cup Pair \cup {"DEV_CLASS"}, 1183, 65535, 0, 0, <<2, 0, 0>>,
                 <<255, 2, 0, 0>>)}

usbIds ==
    Drivers \cup FirstProducts \cup FtdiProducts \cup MoreProducts \cup SierraProducts
    \cup QualcommProducts \cup ZteProducts \cup FirstNumbered \cup SierraNumbered
    \cup QualcommNumbered \cup ZteNumbered \cup FirstRevisions \cup HuaweiRevisions
    \cup LastRevisions \cup DeviceClasses \cup InterfaceClasses \cup VendorClasses
    \cup FirstVendorTriples \cup HuaweiTriples \cup LastVendorTriples \cup ProductClasses
    \cup TelitClasses \cup ProductPairs \cup AppleEnds \cup FirstTriples \cup NokiaTriples
    \cup MoreTriples \cup ZteTriples \cup LastTriples \cup RevisedInterfaces

(* The HID table: bus, group, vendor and product; HidAny is the 32-bit         *)
(* 0xffffffff, the "any vendor" or "any product" of the kernel's hid_device_id. *)
HidAny == -1
HidDeviceID(bus, group, vendor, product) ==
    [bus |-> bus, group |-> group, vendor |-> vendor, product |-> product]

FirstGeneric == {HidDeviceID(3, 0, 1027, 38849), HidDeviceID(3, 0, 3141, 20754)}
LogitechGeneric == {HidDeviceID(3, 0, 1133, 49409), HidDeviceID(3, 0, 1133, 49820)}
MoreGeneric == {HidDeviceID(3, 0, 1134, 21879), HidDeviceID(3, 0, 1151, HidAny),
                HidDeviceID(3, 0, 1699, 3277)}
AppleGeneric == {HidDeviceID(3, 0, 1452, 772), HidDeviceID(3, 0, 1452, 636)}
LastGeneric == {HidDeviceID(3, 0, 6321, 55), HidDeviceID(3, 0, 1276, 1496)}
Groups == {HidDeviceID(3, 1, 2821, 6205), HidDeviceID(3, 1, 6127, 24739)}
WacomGroup == {HidDeviceID(3, 257, 1386, 835), HidDeviceID(3, 257, 1386, HidAny)}
Multitouch == {HidDeviceID(3, 2, 1539, 1536), HidDeviceID(3, 2, 3580, 266)}
LogitechGroups == {HidDeviceID(3, 258, 1133, 16641), HidDeviceID(3, 258, 1133, HidAny),
                   HidDeviceID(3, 260, 1133, HidAny)}
AnyBus == {HidDeviceID(65535, 0, 1102, 4619), HidDeviceID(65535, 4, 1046, 49512)}
               \cup {HidDeviceID(65535, g, HidAny, HidAny) : g \in {0, 256, 2, 3, 4}}

hidIds == FirstGeneric \cup LogitechGeneric \cup MoreGeneric \cup AppleGeneric
              \cup LastGeneric \cup Groups \cup WacomGroup \cup Multitouch
              \cup LogitechGroups \cup AnyBus
=============================================================================
