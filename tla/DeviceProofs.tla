---------------------------- MODULE DeviceProofs ----------------------------
(***************************************************************************)
(* Theorems about start-up, set-up and wiring of the device, for every     *)
(* crystal from which the program can be built.                            *)
(***************************************************************************)
EXTENDS Device, TLAPS

\* The steps before the vectors are taken over, and those after the USB was
\* set up.
Early == {"bootloader", "DFU", "Reset_Handler", "SystemInit", "VectorTableRemap"}
Late  == {"detect", "mountDFU", "mountCDC", "connect", "sleep"}

\* How far the start-up has come at each of its steps.
StartUp ==
    /\ vectors = IF pc \in Early THEN "bootloader" ELSE "application"
    /\ pc \in Steps \cup {"Reset_Handler"} => dfu
    /\ pc = "bootloader" /\ ~tag => ~dfu
    /\ pc = "BSP_USB_Bind"       => "CAN" \in bound
    /\ pc = "BSP_LedTimer_Bind"  => {"CAN", "USB"} \subseteq bound
    /\ pc \in Late \cup {"SystemClock_Config", "USBD_Init"}
           => {"CAN", "USB", "TIM"} \subseteq bound
    /\ pc \in Late \cup {"USBD_Init"} => usbClock = 48
    /\ pc = "mountCDC" => "DFU" \in mounted
    /\ pc = "connect"  => mounted = {"DFU", "CDC"}
    /\ pc \in {"mountDFU", "mountCDC", "connect"} => port = "host"

UsbWired == /\ UsbLines \subseteq enabled
            /\ \A p \in Pins("USB") : pins[p] = "USB"

CanWired == /\ CanLines \subseteq enabled
            /\ \A p \in Pins("CAN") : pins[p] = "CAN"
            /\ \A p \in Pins("control") : pins[p] = "control"

\* Lines are enabled after the remap only, and a CAN interface is open in a
\* connected device only.
Wiring ==
    /\ pc \notin Late => enabled = {} /\ ~connected
    /\ pc \in Late /\ board = "F302" => remap
    /\ pc \in {"detect", "mountDFU", "mountCDC", "connect"} => UsbWired
    /\ connected => UsbWired /\ pc = "sleep"
    /\ canOn => CanWired /\ connected

DeviceInv == TypeOK /\ Buildable /\ StartUp /\ Wiring /\ ConnectsComplete

Users == {"USB", "CAN", "control", "LED"}

-----------------------------------------------------------------------------
\* The multipliers of both boards give the USB its 48 MHz from any crystal that
\* divides them.
LEMMA ClockIs48 ==
  ASSUME Buildable, hse \in Nat, board \in {"F042", "F302"}
  PROVE  UsbClock = 48
<1>1. CASE board = "F042" /\ hse = 0
  BY <1>1 DEF UsbClock, UsbClock_F042
<1>2. CASE board = "F042" /\ hse # 0
  <2>1. hse \in Nat \ {0} /\ 48 % hse = 0
    BY <1>2 DEF Buildable
  <2>2. hse * (48 \div hse) = 48
    BY <2>1
  <2>. QED
    BY <1>2, <2>2 DEF UsbClock, UsbClock_F042
<1>3. CASE board = "F302"
  <2>. DEFINE pll == hse * (72 \div hse)
  <2>1. pll = 72
    BY <1>3 DEF Buildable
  <2>2. UsbClock = (pll * 2) \div 3
    BY <1>3 DEF UsbClock, UsbClock_F302
  <2>. HIDE DEF pll
  <2>. QED
    BY <2>1, <2>2
<1>. QED
  BY <1>1, <1>2, <1>3

\* No pin and no line has two users.
LEMMA Apart ==
  ASSUME board \in {"F042", "F302"}
  PROVE  /\ \A u \in Users : Pins(u) \subseteq AllPins
         /\ \A u, w \in Users : u # w => Pins(u) \cap Pins(w) = {}
         /\ UsbLines \cap CanLines = {}
         /\ UsbLines \subseteq Lines /\ CanLines \subseteq Lines
<1>1. CASE board = "F042"
  BY <1>1 DEF Users, Pins, Pins_F042, AllPins, UsbLines, CanLines, Lines
<1>2. CASE board = "F302"
  BY <1>2 DEF Users, Pins, Pins_F302, AllPins, UsbLines, CanLines, Lines
<1>. QED
  BY <1>1, <1>2

PinTable == [AllPins -> Users \cup {Unused}]

\* Configuring the pins of one user, or releasing them, leaves those of all
\* others alone.
LEMMA PinsOfOne ==
  ASSUME board \in {"F042", "F302"}, NEW t \in PinTable, NEW u \in Users
  PROVE  /\ Configured(t, u) \in PinTable /\ Released(t, u) \in PinTable
         /\ \A p \in Pins(u) : Configured(t, u)[p] = u
         /\ \A w \in Users \ {u} : \A p \in Pins(w) :
                Configured(t, u)[p] = t[p] /\ Released(t, u)[p] = t[p]
<1>1. Configured(t, u) \in PinTable /\ Released(t, u) \in PinTable
  BY DEF PinTable, Configured, Released
<1>2. \A p \in Pins(u) : Configured(t, u)[p] = u
  BY Apart DEF Configured
<1>3. ASSUME NEW w \in Users \ {u}, NEW p \in Pins(w)
      PROVE  Configured(t, u)[p] = t[p] /\ Released(t, u)[p] = t[p]
  <2>1. p \in AllPins /\ p \notin Pins(u)
    BY Apart, <1>3
  <2>. QED
    BY <2>1 DEF Configured, Released
<1>. QED
  BY <1>1, <1>2, <1>3

-----------------------------------------------------------------------------
\* Up to the clocks nothing is wired; each step adds its part.
LEMMA StartUpStep ==
  ASSUME DeviceInv, UNCHANGED build,
         \/ Bootloader \/ UpdateDone \/ Reset_Handler \/ SystemInit
         \/ VectorTableRemap \/ BSP_CAN_Bind \/ BSP_USB_Bind
         \/ BSP_LedTimer_Bind \/ SystemClock_Config
  PROVE  DeviceInv'
<1>. USE DEF Early, Late, Steps
<1>1. /\ pc \notin Late /\ pc' \notin Late
      /\ UNCHANGED <<build, wiring, waiting, connected, canOn>>
  BY DEF Bootloader, UpdateDone, Reset_Handler, SystemInit, VectorTableRemap,
         BSP_CAN_Bind, BSP_USB_Bind, BSP_LedTimer_Bind, Bind, SystemClock_Config, usb
<1>2. enabled = {} /\ ~connected /\ ~canOn
  BY <1>1 DEF DeviceInv, Wiring
<1>3. Wiring' /\ ConnectsComplete'
  BY <1>1, <1>2 DEF Wiring, wiring, ConnectsComplete
<1>4. Buildable'
  BY <1>1 DEF DeviceInv, Buildable, build
<1>5. UsbClock = 48
  BY ClockIs48, DeviceAssumption DEF DeviceInv, TypeOK
<1>6. TypeOK' /\ StartUp'
  <2>. USE <1>1, <1>2 DEF DeviceInv, TypeOK, StartUp, build, wiring, usb
  <2>1. CASE Bootloader
    BY <2>1 DEF Bootloader
  <2>2. CASE UpdateDone
    BY <2>2 DEF UpdateDone
  <2>3. CASE Reset_Handler
    BY <2>3 DEF Reset_Handler
  <2>4. CASE SystemInit
    BY <2>4 DEF SystemInit
  <2>5. CASE VectorTableRemap
    BY <2>5 DEF VectorTableRemap
  <2>6. CASE BSP_CAN_Bind
    BY <2>6 DEF BSP_CAN_Bind, Bind
  <2>7. CASE BSP_USB_Bind
    BY <2>7 DEF BSP_USB_Bind, Bind
  <2>8. CASE BSP_LedTimer_Bind
    BY <2>8 DEF BSP_LedTimer_Bind, Bind
  <2>9. CASE SystemClock_Config
    BY <2>9, <1>5 DEF SystemClock_Config
  <2>. QED
    BY <2>1, <2>2, <2>3, <2>4, <2>5, <2>6, <2>7, <2>8, <2>9
<1>. QED
  BY <1>3, <1>4, <1>6 DEF DeviceInv

\* The USB is set up, or given up when a charger is found.
LEMMA UsbStep ==
  ASSUME DeviceInv, UNCHANGED build,
         \/ UsbDevice_Start \/ HostDetected \/ ChargerDetected
         \/ MountDfu \/ MountCdc \/ Connect
  PROVE  DeviceInv'
<1>. USE DEF Early, Late, Steps
<1>1. /\ pc \in {"USBD_Init", "detect", "mountDFU", "mountCDC", "connect"}
      /\ pc' \in Late /\ UNCHANGED <<build, tag, dfu, vectors, bound, usbClock, port, canOn>>
  BY DEF UsbDevice_Start, HostDetected, ChargerDetected, MountDfu, MountCdc,
         Mount, Connect, usb
<1>2. ~connected /\ ~canOn
  BY <1>1 DEF DeviceInv, Wiring
<1>3. Buildable'
  BY <1>1 DEF DeviceInv, Buildable, build
<1>4. ConnectsComplete'
  <2>1. CASE Connect
    BY <2>1 DEF Connect, DeviceInv, StartUp, ConnectsComplete
  <2>2. CASE ~Connect
    BY <1>2, <2>2 DEF UsbDevice_Start, HostDetected, ChargerDetected, MountDfu,
                      MountCdc, Mount, usb, ConnectsComplete
  <2>. QED
    BY <2>1, <2>2
<1>5. StartUp'
  BY ZenonT(30), <1>1 DEF DeviceInv, StartUp, TypeOK, UsbDevice_Start, HostDetected,
              ChargerDetected, MountDfu, MountCdc, Mount, Connect, usb
<1>6. pins \in PinTable /\ board \in {"F042", "F302"} /\ enabled \subseteq Lines
      /\ remap \in BOOLEAN
  BY DEF DeviceInv, TypeOK, PinTable, Users, Unused
<1>7. CASE UsbDevice_Start
  <2>1. /\ pins' = Configured(pins, "USB") /\ enabled' = enabled \cup UsbLines
        /\ remap' \in BOOLEAN /\ (board = "F302" => remap')
        /\ pc' = "detect" /\ UNCHANGED <<waiting, usb>>
    BY <1>6, <1>7 DEF UsbDevice_Start, BSP_USB_Init, BSP_USB_Init_F042, BSP_USB_Init_F302
  <2>2. pins' \in PinTable /\ \A p \in Pins("USB") : pins'[p] = "USB"
    BY <1>6, <2>1, PinsOfOne DEF Users
  <2>3. UsbWired'
    BY <1>1, <2>1, <2>2 DEF UsbWired, UsbLines, Pins, build
  <2>4. TypeOK'
    BY <1>1, <1>6, <2>1, <2>2, Apart DEF DeviceInv, TypeOK, PinTable, Users, Unused,
                                          build, usb
  <2>5. Wiring'
    BY <1>1, <1>2, <2>1, <2>3 DEF Wiring, build, usb
  <2>. QED
    BY <1>3, <1>4, <1>5, <2>4, <2>5 DEF DeviceInv
<1>8. CASE ChargerDetected
  <2>1. /\ pins' = [Released(pins, "USB") EXCEPT !["PA15"] = pins["PA15"]]
        /\ enabled' = enabled \ UsbLines
        /\ pc' = "sleep" /\ UNCHANGED <<remap, waiting, usb>>
    BY <1>8 DEF ChargerDetected, BSP_USB_Deinit
  <2>2. pins' \in PinTable
    BY <1>6, <2>1 DEF PinTable, Released, AllPins
  <2>3. TypeOK'
    BY <1>1, <1>6, <2>1, <2>2 DEF DeviceInv, TypeOK, PinTable, Users, Unused, build, usb
  <2>4. Wiring'
    BY <1>1, <1>2, <1>8, <2>1 DEF Wiring, build, usb, DeviceInv, ChargerDetected
  <2>. QED
    BY <1>3, <1>4, <1>5, <2>3, <2>4 DEF DeviceInv
<1>9. CASE HostDetected \/ MountDfu \/ MountCdc \/ Connect
  <2>1. /\ UNCHANGED <<wiring, waiting>>
        /\ connected' => pc' = "sleep"
        /\ pc \in Late
    BY <1>2, <1>9 DEF HostDetected, MountDfu, MountCdc, Mount, Connect, usb
  <2>2. UsbWired'
    BY <1>1, <1>9, <2>1 DEF HostDetected, MountDfu, MountCdc, Mount, Connect, DeviceInv,
                  Wiring, UsbWired, UsbLines, Pins, build, wiring
  <2>3. mounted' \subseteq {"DFU", "CDC"} /\ connected' \in BOOLEAN
    BY <1>9 DEF HostDetected, MountDfu, MountCdc, Mount, Connect, usb, DeviceInv, TypeOK
  <2>4. TypeOK'
    BY <1>1, <2>1, <2>3 DEF DeviceInv, TypeOK, build, wiring
  <2>5. Wiring'
    BY <1>1, <1>2, <2>1, <2>2 DEF Wiring, build, wiring, DeviceInv
  <2>. QED
    BY <1>3, <1>4, <1>5, <2>4, <2>5 DEF DeviceInv
<1>. QED
  BY <1>7, <1>8, <1>9

\* Interrupts are raised and served, also with a request that the CAN interface
\* be opened or closed, which comes from a connected host only.
LEMMA InterruptStep ==
  ASSUME DeviceInv, UNCHANGED build, NEW cause \in Causes,
         \/ Raise(cause) \/ Serve(cause)
         \/ OpenBadRate(cause) \/ CanIf_Open(cause) \/ Can_Close(cause)
  PROVE  DeviceInv'
<1>1. UNCHANGED <<build, pc, tag, dfu, vectors, bound, usbClock, remap, usb>>
  BY DEF Raise, Serve, OpenBadRate, CanIf_Open, Can_Close, Request, wiring
<1>2. Buildable' /\ StartUp' /\ ConnectsComplete'
  BY <1>1 DEF DeviceInv, Buildable, StartUp, ConnectsComplete, build, usb
<1>3. waiting' \subseteq Causes
  BY DEF Raise, Serve, OpenBadRate, CanIf_Open, Can_Close, Request, DeviceInv, TypeOK
<1>4. /\ pins \in PinTable /\ enabled \subseteq Lines
      /\ board \in {"F042", "F302"} /\ remap \in BOOLEAN /\ canOn \in BOOLEAN
  BY DEF DeviceInv, TypeOK, PinTable, Users, Unused
<1>5. CASE Raise(cause) \/ Serve(cause)
  <2>1. UNCHANGED <<enabled, pins, canOn>>
    BY <1>5 DEF Raise, Serve, wiring
  <2>2. TypeOK'
    BY <1>1, <1>3, <2>1 DEF DeviceInv, TypeOK, build, usb
  <2>3. Wiring'
    BY <1>1, <2>1 DEF DeviceInv, Wiring, UsbWired, CanWired, UsbLines, CanLines,
                      Pins, build, usb
  <2>. QED
    BY <1>2, <2>2, <2>3 DEF DeviceInv
<1>6. ASSUME pins' \in PinTable,
             \A p \in Pins("USB") : pins'[p] = pins[p],
             enabled' \subseteq Lines, UsbLines \subseteq enabled => UsbLines \subseteq enabled',
             canOn' \in BOOLEAN, connected, canOn' => CanWired'
      PROVE  DeviceInv'
  <2>1. TypeOK'
    BY <1>1, <1>3, <1>4, <1>6 DEF DeviceInv, TypeOK, PinTable, Users, Unused, build, usb
  <2>2. UsbWired /\ pc = "sleep"
    BY <1>6 DEF DeviceInv, Wiring
  <2>3. UsbWired'
    BY <1>1, <1>6, <2>2 DEF UsbWired, UsbLines, Pins, build
  <2>4. Wiring'
    BY <1>1, <1>6, <2>2, <2>3 DEF DeviceInv, Wiring, build, usb, Late
  <2>. QED
    BY <1>2, <2>1, <2>4 DEF DeviceInv
<1>7. CASE OpenBadRate(cause)
  <2>1. /\ pins' = Configured(pins, "control") /\ canOn' = FALSE /\ connected
        /\ enabled' = enabled
    BY <1>7 DEF OpenBadRate, Request
  <2>2. pins' \in PinTable /\ \A p \in Pins("USB") : pins'[p] = pins[p]
    BY <1>4, <2>1, PinsOfOne DEF Users
  <2>. QED
    BY <1>4, <1>6, <2>1, <2>2
<1>8. CASE CanIf_Open(cause)
  <2>. DEFINE control == Configured(pins, "control")
              lit     == Configured(control, "LED")
  <2>1. /\ connected /\ canOn' = TRUE /\ enabled' = enabled \cup CanLines
        /\ \/ pins' = Configured(control, "CAN") \/ pins' = Configured(lit, "CAN")
    BY <1>8 DEF CanIf_Open, Request, BSP_CAN_Init
  <2>2. /\ control \in PinTable
        /\ \A p \in Pins("USB") : control[p] = pins[p]
        /\ \A p \in Pins("control") : control[p] = "control"
    BY <1>4, PinsOfOne DEF Users
  <2>. HIDE DEF control
  <2>3. /\ lit \in PinTable
        /\ \A p \in Pins("USB") : lit[p] = pins[p]
        /\ \A p \in Pins("control") : lit[p] = "control"
    BY <1>4, <2>2, PinsOfOne DEF Users
  <2>. HIDE DEF lit
  <2>4. /\ pins' \in PinTable
        /\ \A p \in Pins("USB") : pins'[p] = pins[p]
        /\ \A p \in Pins("control") : pins'[p] = "control"
        /\ \A p \in Pins("CAN") : pins'[p] = "CAN"
    <3>1. CASE pins' = Configured(control, "CAN")
      BY <1>4, <2>2, <3>1, PinsOfOne DEF Users
    <3>2. CASE pins' = Configured(lit, "CAN")
      BY <1>4, <2>3, <3>2, PinsOfOne DEF Users
    <3>. QED
      BY <2>1, <3>1, <3>2
  <2>5. CanWired'
    BY <1>1, <2>1, <2>4 DEF CanWired, CanLines, Pins, build
  <2>. QED
    BY <1>4, <1>6, <2>1, <2>4, <2>5, Apart
<1>9. CASE Can_Close(cause)
  <2>. DEFINE off  == Released(pins, "control")
              dark == Released(off, "LED")
  <2>1. /\ connected /\ canOn' = FALSE /\ enabled' = enabled \ CanLines
        /\ pins' = Released(dark, "CAN")
    BY <1>9 DEF Can_Close, Request, BSP_CAN_Deinit
  <2>2. off \in PinTable /\ \A p \in Pins("USB") : off[p] = pins[p]
    BY <1>4, PinsOfOne DEF Users
  <2>. HIDE DEF off
  <2>3. dark \in PinTable /\ \A p \in Pins("USB") : dark[p] = pins[p]
    BY <1>4, <2>2, PinsOfOne DEF Users
  <2>. HIDE DEF dark
  <2>4. pins' \in PinTable /\ \A p \in Pins("USB") : pins'[p] = pins[p]
    BY <1>4, <2>1, <2>3, PinsOfOne DEF Users
  <2>5. UsbLines \subseteq enabled => UsbLines \subseteq enabled'
    BY <1>4, <2>1, Apart
  <2>. QED
    BY <1>4, <1>6, <2>1, <2>4, <2>5
<1>. QED
  BY <1>5, <1>7, <1>8, <1>9

\* A hard fault leaves the RAM, and the tag in it.
LEMMA FaultStep ==
  ASSUME DeviceInv, UNCHANGED build, HardFault_Handler
  PROVE  DeviceInv'
<1>1. pins' \in PinTable
  BY DEF HardFault_Handler, PinTable
<1>2. /\ pc' = "bootloader" /\ tag' = TRUE /\ vectors' = "bootloader"
      /\ enabled' = {} /\ connected' = FALSE /\ canOn' = FALSE /\ remap' = FALSE
      /\ waiting' = {} /\ usbClock' = 0
      /\ UNCHANGED <<dfu, bound, mounted, port>>
  BY DEF HardFault_Handler
<1>3. TypeOK' /\ Buildable'
  BY <1>1, <1>2 DEF DeviceInv, TypeOK, PinTable, Users, Unused, Buildable, build
<1>4. StartUp' /\ Wiring' /\ ConnectsComplete'
  BY <1>2 DEF StartUp, Wiring, ConnectsComplete, Early, Late, Steps
<1>. QED
  BY <1>3, <1>4 DEF DeviceInv

LEMMA DeviceInvariant == Spec => []DeviceInv
<1>1. Init => DeviceInv
  BY DEF Init, DeviceInv, TypeOK, StartUp, Wiring, ConnectsComplete, Early, Late, Steps
<1>2. DeviceInv /\ [Next]_vars => DeviceInv'
  <2>. SUFFICES ASSUME DeviceInv, [Next]_vars
                PROVE  DeviceInv'
    OBVIOUS
  <2>1. CASE UNCHANGED vars
    BY <2>1 DEF vars, build, wiring, usb, DeviceInv, TypeOK, Buildable, StartUp, Wiring,
                UsbWired, CanWired, UsbLines, CanLines, Pins, ConnectsComplete
  <2>. QED
    BY <2>1, StartUpStep, UsbStep, InterruptStep, FaultStep DEF Next, Main
<1>. QED
  BY <1>1, <1>2, PTL DEF Spec

\* Every step of start-up, set-up, interrupts and faults leaves the device
\* well formed, and the USB clock at 48 MHz or off.
THEOREM DeviceTypes == Spec => []TypeOK
  BY DeviceInvariant, PTL DEF DeviceInv

\* The host never sees an incomplete device (usb_device.c:96), after a hard
\* fault and a firmware update neither, with any crystal.
THEOREM CompleteWhenConnected == Spec => []ConnectsComplete
  BY DeviceInvariant, PTL DEF DeviceInv

\* No interrupt that can be taken meets the boot loader's vectors, a handler of
\* the other device, or a handle that main has not bound.
THEOREM HandlersFound == Spec => []FindsItsHandler
<1>1. DeviceInv => FindsItsHandler
  <2>. SUFFICES ASSUME DeviceInv, NEW c \in Taken
                PROVE  /\ vectors = "application"
                       /\ c \in Handler(Line(c))
                       /\ {DeviceOf(c), "TIM"} \subseteq bound
    BY DEF FindsItsHandler
  <2>1. Line(c) \in enabled /\ c \in Causes
    BY DEF Taken, DeviceInv, TypeOK
  <2>2. pc \in Late
    BY <2>1 DEF DeviceInv, Wiring
  <2>3. vectors = "application" /\ {"CAN", "USB", "TIM"} \subseteq bound
    BY <2>2 DEF DeviceInv, StartUp, Late, Early
  <2>4. ASSUME board = "F042"
        PROVE  c \in Handler(Line(c))
    <3>1. Line(c) = IF c \in UsbCauses THEN "USB" ELSE "CEC_CAN"
      BY <2>4 DEF Line, Line_F042
    <3>. QED
      BY <2>1, <2>4, <3>1 DEF Handler, Handler_F042, Causes
  <2>5. ASSUME board = "F302"
        PROVE  c \in Handler(Line(c))
    <3>1. remap
      BY <2>2, <2>5 DEF DeviceInv, Wiring
    <3>2. Line(c) = CASE c = "TX"   -> "USB_HP_CAN_TX"
                      [] c = "RX0"  -> "USB_LP_CAN_RX0"
                      [] c = "SCE"  -> "CAN_SCE"
                      [] c = "HP"   -> "USB_HP"
                      [] c = "LP"   -> "USB_LP"
                      [] c = "WKUP" -> "USBWakeUp_RMP"
      BY <2>5, <3>1 DEF Line, Line_F302
    <3>3. Handler(Line(c)) = Handler_F302(Line(c))
      BY <2>5 DEF Handler
    <3>4. c \in {"TX", "RX0", "SCE", "HP", "LP", "WKUP"}
      BY <2>1 DEF Causes, CanCauses, UsbCauses
    <3>. QED
      BY <3>2, <3>3, <3>4 DEF Handler_F302, UsbCauses
  <2>6. c \in Handler(Line(c))
    BY <2>4, <2>5 DEF DeviceInv, TypeOK
  <2>. QED
    BY <2>3, <2>6 DEF DeviceOf
<1>. QED
  BY <1>1, DeviceInvariant, PTL

\* Opening and closing the CAN interface takes no line and no pin from the USB,
\* on either board, nor the USB from CAN.
THEOREM WiringKept == Spec => []KeepsItsWiring
<1>1. DeviceInv => KeepsItsWiring
  <2>. SUFFICES ASSUME DeviceInv
                PROVE  KeepsItsWiring
    OBVIOUS
  <2>1. board \in {"F042", "F302"}
    BY DEF DeviceInv, TypeOK
  <2>2. ASSUME connected
        PROVE  \A c \in UsbCauses : Line(c) \in enabled
    <3>1. UsbLines \subseteq enabled /\ (board = "F302" => remap)
      BY <2>2 DEF DeviceInv, Wiring, UsbWired, Late
    <3>. QED
      BY <2>1, <3>1 DEF UsbLines, UsbCauses, Line, Line_F042, Line_F302
  <2>3. ASSUME canOn
        PROVE  \A c \in CanCauses : Line(c) \in enabled
    <3>1. CanLines \subseteq enabled
      BY <2>3 DEF DeviceInv, Wiring, CanWired
    <3>. QED
      BY <2>1, <3>1 DEF CanLines, CanCauses, UsbCauses, Line, Line_F042, Line_F302
  <2>. QED
    BY <2>2, <2>3 DEF KeepsItsWiring, DeviceInv, Wiring, UsbWired, CanWired
<1>. QED
  BY <1>1, DeviceInvariant, PTL

\* After a hard fault the program starts again only when the boot loader has
\* offered a firmware update (exception.c:31).
THEOREM UpdateOffered == Spec => FaultOffersUpdate
<1>1. DeviceInv /\ [Next]_vars
        => [pc = "bootloader" /\ pc' = "Reset_Handler" => ~dfu]_vars
  <2>. SUFFICES ASSUME DeviceInv, [Next]_vars, pc = "bootloader", pc' = "Reset_Handler"
                PROVE  ~dfu
    BY DEF vars
  <2>1. Bootloader
    BY DEF Next, Main, UpdateDone, Reset_Handler, SystemInit, VectorTableRemap,
           BSP_CAN_Bind, BSP_USB_Bind, BSP_LedTimer_Bind, Bind, SystemClock_Config,
           UsbDevice_Start, HostDetected, ChargerDetected, MountDfu, MountCdc, Mount,
           Connect, Raise, Serve, OpenBadRate, CanIf_Open, Can_Close, Request,
           HardFault_Handler, vars
  <2>2. ~tag
    BY <2>1 DEF Bootloader
  <2>. QED
    BY <2>2 DEF DeviceInv, StartUp
<1>. QED
  BY <1>1, DeviceInvariant, PTL DEF Spec, FaultOffersUpdate
=============================================================================
