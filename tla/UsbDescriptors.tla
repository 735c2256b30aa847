--------------------------- MODULE UsbDescriptors ---------------------------
(* The generators of USB device descriptors (sys-linux-specifications/         *)
(* init_vusb.go): a descriptor is built or mutated by the prog library, then   *)
(* an id of the table is drawn and patched over the fields a driver matches.   *)
(* Picks(n) are the outcomes of Rand().Intn(n) that are explored.              *)
EXTENDS UsbIds, Sequences

CONSTANTS Picks(_), MaxInterfaces

Word16 == 65536     \* the values of a field of 16 bits

ASSUME PicksAssumption == \A n \in 1 .. Word16 : Picks(n) # {} /\ Picks(n) \subseteq 0 .. n - 1
ASSUME MaxInterfacesAssumption == MaxInterfaces \in 1 .. 4

DeviceFields == {"idVendor", "idProduct", "bDeviceClass", "bDeviceSubClass", "bDeviceProtocol"}
InterfaceFields == {"bInterfaceClass", "bInterfaceSubClass", "bInterfaceProtocol",
                    "bInterfaceNumber"}
FlagOf == [idVendor |-> "VENDOR", idProduct |-> "PRODUCT", bDeviceClass |-> "DEV_CLASS",
           bDeviceSubClass |-> "DEV_SUBCLASS", bDeviceProtocol |-> "DEV_PROTOCOL",
           bInterfaceClass |-> "INT_CLASS", bInterfaceSubClass |-> "INT_SUBCLASS",
           bInterfaceProtocol |-> "INT_PROTOCOL", bInterfaceNumber |-> "INT_NUMBER"]

(* A field the record does not match on is random: 16 bits for vendor and     *)
(* product, 8 bits for the others.                                            *)
Width(field) == IF field \in {"idVendor", "idProduct"} THEN Word16 ELSE 256
Drawn(record, field) ==
    IF FlagOf[field] \in record.flags THEN {record[field]} ELSE Picks(Width(field))

(* The bounds of the revision; an end the record does not match on is open.    *)
BcdLo(record) == IF "DEV_LO" \in record.flags THEN record.bcdLo ELSE 0
BcdHi(record) == IF "DEV_HI" \in record.flags THEN record.bcdHi ELSE Word16 - 1
\* A mutant: the range is taken one too long.
RevisionPastEnd(record) ==
    {BcdLo(record) + n : n \in Picks(BcdHi(record) - BcdLo(record) + 2)}
DrawnBcd(record) ==
    {BcdLo(record) + n : n \in Picks(BcdHi(record) - BcdLo(record) + 1)}

(* randUsbDeviceID: what the fields of a descriptor can hold once an id drawn   *)
(* from the record is patched over them.                                      *)
DevicesOf(record) ==
    [idVendor : Drawn(record, "idVendor"), idProduct : Drawn(record, "idProduct"),
     bcdDevice : DrawnBcd(record), bDeviceClass : Drawn(record, "bDeviceClass"),
     bDeviceSubClass : Drawn(record, "bDeviceSubClass"),
     bDeviceProtocol : Drawn(record, "bDeviceProtocol")]
InterfacesOf(record) ==
    [bInterfaceClass : Drawn(record, "bInterfaceClass"),
     bInterfaceSubClass : Drawn(record, "bInterfaceSubClass"),
     bInterfaceProtocol : Drawn(record, "bInterfaceProtocol"),
     bInterfaceNumber : Drawn(record, "bInterfaceNumber")]

(* generateUsbDeviceDescriptor on an argument with n interfaces: the device    *)
(* and the first interface take one id, every other interface a new one; the   *)
(* first id is kept to state what the descriptor is for.  An argument the       *)
(* mutation has squashed into raw data is left as it is.                       *)
LaterInterfaces == UNION {InterfacesOf(record) : record \in usbIds}
InterfaceLists(record, n) ==
    {[i \in 1 .. n |-> IF i = 1 THEN first ELSE later[i]] :
        first \in InterfacesOf(record), later \in [2 .. n -> LaterInterfaces]}
Descriptors(record, n) ==
    [kind : {"usb_device_descriptor"}, squashed : {FALSE}, id : {record},
     device : DevicesOf(record), interfaces : InterfaceLists(record, n)]
generateUsbDeviceDescriptor(raw) ==
    IF raw.squashed THEN {raw}
    ELSE UNION {Descriptors(record, raw.interfaces) : record \in usbIds}
RawDescriptors(kind) ==
    [kind : {kind}, squashed : BOOLEAN, interfaces : 1 .. MaxInterfaces]

(* generateUsbHidDeviceDescriptor: vendor and product are patched as they are   *)
(* into fields of 16 bits.                                                    *)
Low16(value) == value % Word16
generateUsbHidDeviceDescriptor(raw) ==
    IF raw.squashed THEN {raw}
    ELSE {[kind |-> "usb_device_descriptor_hid", squashed |-> FALSE,
           idVendor |-> Low16(record.vendor), idProduct |-> Low16(record.product)] :
             record \in hidIds}
=============================================================================
