------------------------------- MODULE Device -------------------------------
(***************************************************************************)
(* How the device comes up and how its interrupts find their handlers:     *)
(* reset, the start-up code, main, the USB set-up of usb_device.c, and the *)
(* pins, interrupt lines and clocks of the two board support packages.     *)
(*                                                                         *)
(* All interrupts have priority 0, so a handler is one step; main and the  *)
(* faults are interleaved with them.  The boot loader, the USB stack and   *)
(* the peripheral drivers are not part of the repository: what the code    *)
(* relies on is modelled and marked external.                              *)
(***************************************************************************)
EXTENDS Integers

CONSTANT Crystals    \* values of HSE_VALUE_Hz in MHz, 0 where it is not defined

ASSUME DeviceAssumption == Crystals \subseteq Nat

VARIABLES
    board,     \* the board support package of the build
    hse,       \* its crystal
    pc,        \* what runs: the boot loader, or the next step of the program
    tag,       \* the DFU tag is set in the RAM shared with the boot loader
    dfu,       \* the DFU handle there is as the boot loader left it
    vectors,   \* whose vector table is at address 0
    bound,     \* handles that have their instance and callbacks
    usbClock,  \* MHz, 0 while not configured
    remap,     \* the USB interrupts are on lines of their own (STM32F302)
    enabled,   \* NVIC: lines that are enabled
    waiting,   \* causes of the interrupts that are pending
    pins,      \* what a pin is configured for
    mounted,   \* interfaces of the USB device
    connected, \* the host sees the device
    port,      \* what is on the other end of the USB cable
    canOn      \* the CAN peripheral has interrupts enabled

build  == <<board, hse>>
wiring == <<remap, enabled, pins>>
usb    == <<mounted, connected, port>>
vars   == <<build, pc, tag, dfu, vectors, bound, usbClock, wiring, waiting, usb, canOn>>

\* The PLL multipliers are whole numbers; only the STM32F042 runs without
\* a crystal.
Buildable == IF board = "F042" THEN hse # 0 => 48 % hse = 0
                               ELSE hse # 0 /\ 72 % hse = 0

Lines == {"CEC_CAN", "USB", "USB_HP_CAN_TX", "USB_LP_CAN_RX0", "CAN_SCE",
          "USB_HP", "USB_LP", "USBWakeUp_RMP"}

\* What a device raises interrupts for.
UsbCauses == {"HP", "LP", "WKUP"}
CanCauses == {"TX", "RX0", "SCE"}
Causes    == UsbCauses \cup CanCauses
DeviceOf(cause) == IF cause \in UsbCauses THEN "USB" ELSE "CAN"

\* bsp_io.h: data and pull-up pins of the USB port, CAN, transceiver, LEDs.
Pins_F042(user) ==
    CASE user = "USB"     -> {"PA11", "PA12"}
      [] user = "CAN"     -> {"PB8", "PB9"}
      [] user = "control" -> {"PC13", "PA10"}
      [] user = "LED"     -> {"PB0", "PB13"}

\* Fault: the transceiver switch is given the pin of the USB pull-up.
Pins_F302Clash(user) ==
    CASE user = "USB"     -> {"PA11", "PA12", "PA15"}
      [] user = "CAN"     -> {"PB8", "PB9"}
      [] user = "control" -> {"PC13", "PA15"}
      [] user = "LED"     -> {"PB0", "PB13"}

Pins_F302(user) ==
    CASE user = "USB"     -> {"PA11", "PA12", "PA15"}
      [] user = "CAN"     -> {"PB8", "PB9"}
      [] user = "control" -> {"PC13", "PA10"}
      [] user = "LED"     -> {"PB0", "PB13"}

Pins(user) == IF board = "F042" THEN Pins_F042(user) ELSE Pins_F302(user)

AllPins == {"PA10", "PA11", "PA12", "PA15", "PB0", "PB8", "PB9", "PB13", "PC13"}
Unused  == "none"

\* The interrupt handlers: the causes that the handler of a line serves.
Handler_F042(line) == IF line = "CEC_CAN" THEN CanCauses ELSE UsbCauses
Handler_F302(line) ==
    CASE line = "USB_HP_CAN_TX"  -> {"TX"}
      [] line = "USB_LP_CAN_RX0" -> {"RX0"}
      [] line = "CAN_SCE"        -> {"SCE"}
      [] OTHER                   -> UsbCauses

Handler(line) == IF board = "F042" THEN Handler_F042(line) ELSE Handler_F302(line)

Steps == {"SystemInit", "VectorTableRemap", "BSP_CAN_Bind", "BSP_USB_Bind",
          "BSP_LedTimer_Bind", "SystemClock_Config", "USBD_Init", "detect",
          "mountDFU", "mountCDC", "connect", "sleep"}

TypeOK ==
    /\ board \in {"F042", "F302"} /\ hse \in Crystals
    /\ pc \in Steps \cup {"bootloader", "Reset_Handler", "DFU"}
    /\ {tag, dfu, remap, connected, canOn} \subseteq BOOLEAN
    /\ vectors \in {"bootloader", "application"}
    /\ bound \subseteq {"CAN", "USB", "TIM"}
    /\ usbClock \in {0, 48}
    /\ enabled \subseteq Lines /\ waiting \subseteq Causes
    /\ pins \in [AllPins -> {Unused, "USB", "CAN", "control", "LED"}]
    /\ mounted \subseteq {"DFU", "CDC"}
    /\ port \in {"host", "charger"}

Configured(table, user) == [p \in AllPins |-> IF p \in Pins(user) THEN user   ELSE table[p]]
Released(table, user)   == [p \in AllPins |-> IF p \in Pins(user) THEN Unused ELSE table[p]]

UsbLines == IF board = "F042" THEN {"USB"} ELSE {"USB_HP", "USB_LP", "USBWakeUp_RMP"}
CanLines == IF board = "F042" THEN {"CEC_CAN"}
            ELSE {"USB_HP_CAN_TX", "USB_LP_CAN_RX0", "CAN_SCE"}

\* External: the line of a cause.  On the STM32F302 USB and CAN share two lines
\* until the USB is remapped.
Line_F042(cause) == IF cause \in UsbCauses THEN "USB" ELSE "CEC_CAN"
Line_F302(cause) ==
    CASE cause = "TX"   -> "USB_HP_CAN_TX"
      [] cause = "RX0"  -> "USB_LP_CAN_RX0"
      [] cause = "SCE"  -> "CAN_SCE"
      [] cause = "HP"   -> IF remap THEN "USB_HP" ELSE "USB_HP_CAN_TX"
      [] cause = "LP"   -> IF remap THEN "USB_LP" ELSE "USB_LP_CAN_RX0"
      [] cause = "WKUP" -> "USBWakeUp_RMP"

Line(cause) == IF board = "F042" THEN Line_F042(cause) ELSE Line_F302(cause)

Init ==
    /\ board \in {"F042", "F302"} /\ hse \in Crystals /\ Buildable
    /\ pc = "bootloader" /\ tag = FALSE /\ dfu = FALSE
    /\ vectors = "bootloader" /\ bound = {} /\ usbClock = 0
    /\ remap = FALSE /\ enabled = {} /\ waiting = {}
    /\ pins = [p \in AllPins |-> Unused]
    /\ mounted = {} /\ connected = FALSE /\ port \in {"host", "charger"}
    /\ canOn = FALSE

-----------------------------------------------------------------------------
\* External.  The boot loader looks at the tag: it stays for a firmware
\* update, or it sets up the DFU handle and starts the program.
Bootloader ==
    /\ pc = "bootloader"
    /\ tag' = FALSE
    /\ IF tag THEN pc' = "DFU" /\ UNCHANGED dfu
              ELSE pc' = "Reset_Handler" /\ dfu' = TRUE
    /\ UNCHANGED <<vectors, bound, usbClock, wiring, waiting, usb, canOn>>

\* External.  The update is over, or declined; the cable may have been moved.
UpdateDone ==
    /\ pc = "DFU" /\ pc' = "Reset_Handler"
    /\ dfu' = TRUE /\ port' \in {"host", "charger"}
    /\ UNCHANGED <<tag, vectors, bound, usbClock, wiring, waiting,
                   mounted, connected, canOn>>

\* The handles are in .bss, the RAM shared with the boot loader is not.
Reset_Handler ==
    /\ pc = "Reset_Handler" /\ pc' = "SystemInit"
    /\ bound' = {} /\ mounted' = {}
    /\ UNCHANGED <<tag, dfu, vectors, usbClock, wiring, waiting, connected, port, canOn>>

\* The peripherals and the clocks are reset.
SystemInit ==
    /\ pc = "SystemInit" /\ pc' = "VectorTableRemap"
    /\ usbClock' = 0
    /\ UNCHANGED <<tag, dfu, vectors, bound, wiring, waiting, usb, canOn>>

\* The vector table is taken over: a copy in RAM (STM32F042), or the table in
\* flash (STM32F302).
VectorTableRemap ==
    /\ pc = "VectorTableRemap" /\ pc' = "BSP_CAN_Bind"
    /\ vectors' = "application"
    /\ UNCHANGED <<tag, dfu, bound, usbClock, wiring, waiting, usb, canOn>>

\* main binds the handles one after the other.
Bind(step, handle, next) ==
    /\ pc = step /\ pc' = next
    /\ bound' = bound \cup {handle}
    /\ UNCHANGED <<tag, dfu, vectors, usbClock, wiring, waiting, usb, canOn>>

BSP_CAN_Bind      == Bind("BSP_CAN_Bind", "CAN", "BSP_USB_Bind")
BSP_USB_Bind      == Bind("BSP_USB_Bind", "USB", "BSP_LedTimer_Bind")
BSP_LedTimer_Bind == Bind("BSP_LedTimer_Bind", "TIM", "SystemClock_Config")

\* Fault: the USB takes the PLL output as it is.
UsbClock_F302Undivided == hse * (72 \div hse)

\* A multiple of the crystal, divided by 1.5 for the USB.
UsbClock_F302 == (hse * (72 \div hse) * 2) \div 3

\* HSI48, or a multiple of the crystal.
UsbClock_F042 == IF hse = 0 THEN 48 ELSE hse * (48 \div hse)

UsbClock == IF board = "F042" THEN UsbClock_F042 ELSE UsbClock_F302

SystemClock_Config ==
    /\ pc = "SystemClock_Config" /\ pc' = "USBD_Init"
    /\ usbClock' = UsbClock
    /\ UNCHANGED <<tag, dfu, vectors, bound, wiring, waiting, usb, canOn>>

BSP_USB_Init_F042 ==
    /\ pins' = Configured(pins, "USB")
    /\ enabled' = enabled \cup UsbLines
    /\ UNCHANGED remap

\* Fault: the USB interrupts stay on the lines they share with CAN.
BSP_USB_Init_F302Shared ==
    /\ pins' = Configured(pins, "USB")
    /\ enabled' = enabled \cup UsbLines
    /\ UNCHANGED remap

BSP_USB_Init_F302 ==
    /\ pins' = Configured(pins, "USB")
    /\ remap' = TRUE
    /\ enabled' = enabled \cup UsbLines

BSP_USB_Init == IF board = "F042" THEN BSP_USB_Init_F042 ELSE BSP_USB_Init_F302

\* The pull-up pin of the STM32F302 is not released.
BSP_USB_Deinit ==
    /\ pins' = [Released(pins, "USB") EXCEPT !["PA15"] = pins["PA15"]]
    /\ enabled' = enabled \ UsbLines
    /\ UNCHANGED remap

\* UsbDevice_Init.  External: USBD_Init and USBD_Deinit call BSP_USB_Init and
\* BSP_USB_Deinit.
UsbDevice_Start ==
    /\ pc = "USBD_Init" /\ pc' = "detect"
    /\ BSP_USB_Init
    /\ UNCHANGED <<tag, dfu, vectors, bound, usbClock, waiting, usb, canOn>>

HostDetected ==
    /\ pc = "detect" /\ port = "host" /\ pc' = "mountDFU"
    /\ UNCHANGED <<tag, dfu, vectors, bound, usbClock, wiring, waiting, usb, canOn>>

ChargerDetected ==
    /\ pc = "detect" /\ port = "charger" /\ pc' = "sleep"
    /\ BSP_USB_Deinit
    /\ UNCHANGED <<tag, dfu, vectors, bound, usbClock, waiting, usb, canOn>>

\* The interfaces are mounted one after the other.
Mount(step, interface, next) ==
    /\ pc = step /\ pc' = next
    /\ mounted' = mounted \cup {interface}
    /\ UNCHANGED <<tag, dfu, vectors, bound, usbClock, wiring, waiting,
                   connected, port, canOn>>

MountDfu == Mount("mountDFU", "DFU", "mountCDC")
MountCdc == Mount("mountCDC", "CDC", "connect")

\* Fault: the connection is made before the last interface is mounted.
ConnectFirst ==
    /\ pc = "mountCDC" /\ pc' = "sleep"
    /\ connected' = TRUE
    /\ UNCHANGED <<tag, dfu, vectors, bound, usbClock, wiring, waiting,
                   mounted, port, canOn>>

Connect ==
    /\ pc = "connect" /\ pc' = "sleep"
    /\ connected' = TRUE
    /\ UNCHANGED <<tag, dfu, vectors, bound, usbClock, wiring, waiting,
                   mounted, port, canOn>>

Main == \/ SystemInit \/ VectorTableRemap
        \/ BSP_CAN_Bind \/ BSP_USB_Bind \/ BSP_LedTimer_Bind
        \/ SystemClock_Config \/ UsbDevice_Start
        \/ HostDetected \/ ChargerDetected
        \/ MountDfu \/ MountCdc \/ Connect

-----------------------------------------------------------------------------
\* External: a device that has been set up raises an interrupt.
Raise(cause) ==
    /\ pc \in Steps
    /\ IF cause \in CanCauses THEN canOn ELSE UsbLines \subseteq enabled
    /\ waiting' = waiting \cup {cause}
    /\ UNCHANGED <<pc, tag, dfu, vectors, bound, usbClock, wiring, usb, canOn>>

Taken == {c \in waiting : Line(c) \in enabled}

\* A handler runs: it clears the flags of the causes it serves.
Serve(cause) ==
    /\ cause \in Taken
    /\ waiting' = waiting \ Handler(Line(cause))
    /\ UNCHANGED <<pc, tag, dfu, vectors, bound, usbClock, wiring, usb, canOn>>

\* ... and the USB handler may find a CDC request of the host.
Request(cause) ==
    /\ cause \in Taken \cap UsbCauses
    /\ connected /\ "CDC" \in mounted
    /\ waiting' = waiting \ Handler(Line(cause))
    /\ UNCHANGED <<pc, tag, dfu, vectors, bound, usbClock, remap, usb>>

\* BSP_CAN_Init and BSP_CAN_Deinit, from CAN_eInit and CAN_vDeinit (external).
BSP_CAN_Init(table) ==
    /\ enabled' = enabled \cup CanLines
    /\ pins' = Configured(table, "CAN")
BSP_CAN_Deinit(table) ==
    /\ enabled' = enabled \ CanLines
    /\ pins' = Released(table, "CAN")

\* CanIf_Open with a bit rate that cannot be set: the peripheral has been reset.
OpenBadRate(cause) ==
    /\ Request(cause)
    /\ pins' = Configured(pins, "control")
    /\ canOn' = FALSE
    /\ UNCHANGED enabled

\* CanIf_Open; without synchronization to the bus the LEDs are left alone.
CanIf_Open(cause) ==
    /\ Request(cause)
    /\ \E synchronized \in BOOLEAN :
          LET control == Configured(pins, "control")
          IN  BSP_CAN_Init(IF synchronized THEN Configured(control, "LED") ELSE control)
    /\ canOn' = TRUE

Can_Close(cause) ==
    /\ Request(cause)
    /\ BSP_CAN_Deinit(Released(Released(pins, "control"), "LED"))
    /\ canOn' = FALSE

\* Fault: the tag is not written.
HardFault_HandlerNoTag ==
    /\ pc \in Steps /\ vectors = "application"
    /\ pc' = "bootloader" /\ vectors' = "bootloader" /\ usbClock' = 0
    /\ remap' = FALSE /\ enabled' = {} /\ waiting' = {}
    /\ pins' = [p \in AllPins |-> Unused]
    /\ connected' = FALSE /\ canOn' = FALSE
    /\ UNCHANGED <<tag, dfu, bound, mounted, port>>

\* The tag is written, then the reset: the registers lose everything, the
\* RAM nothing.
HardFault_Handler ==
    /\ pc \in Steps /\ vectors = "application"
    /\ tag' = TRUE
    /\ pc' = "bootloader" /\ vectors' = "bootloader" /\ usbClock' = 0
    /\ remap' = FALSE /\ enabled' = {} /\ waiting' = {}
    /\ pins' = [p \in AllPins |-> Unused]
    /\ connected' = FALSE /\ canOn' = FALSE
    /\ UNCHANGED <<dfu, bound, mounted, port>>

Next ==
    /\ UNCHANGED build
    /\ \/ Bootloader \/ UpdateDone \/ Reset_Handler \/ Main
       \/ \E cause \in Causes :
             \/ Raise(cause) \/ Serve(cause)
             \/ OpenBadRate(cause) \/ CanIf_Open(cause) \/ Can_Close(cause)
       \/ HardFault_Handler

Spec == Init /\ [][Next]_vars

-----------------------------------------------------------------------------
\* An interrupt that can be taken is taken by a handler that serves its cause,
\* and finds its handles bound.  Before SystemInit the vectors are those of the
\* boot loader, and on the STM32F302 the handlers of CAN stand at lines that
\* the USB can raise as well.
FindsItsHandler ==
    \A c \in Taken :
        /\ vectors = "application"
        /\ c \in Handler(Line(c))
        /\ {DeviceOf(c), "TIM"} \subseteq bound

\* Opening and closing the CAN interface, in any order, never takes a line or a
\* pin from the USB, nor the reverse.
KeepsItsWiring ==
    /\ connected => /\ \A c \in UsbCauses : Line(c) \in enabled
                    /\ \A p \in Pins("USB") : pins[p] = "USB"
    /\ canOn => /\ \A c \in CanCauses : Line(c) \in enabled
                /\ \A p \in Pins("CAN") : pins[p] = "CAN"
                /\ \A p \in Pins("control") : pins[p] = "control"

\* The host never sees a device that is not complete, after a fault and a
\* firmware update neither: both interfaces are mounted, the DFU handle is the
\* one the boot loader set up, and the USB runs at 48 MHz (bsp_system.c:60).
ConnectsComplete ==
    connected => mounted = {"DFU", "CDC"} /\ dfu /\ usbClock = 48 /\ port = "host"

\* exception.c:31, "Reset to bootloader": once it has run, the program starts
\* again only after the boot loader has offered a firmware update.  The offer
\* passes through RAM that the reset, the start-up code and both linker
\* scripts must leave alone.
FaultOffersUpdate ==
    [][pc = "bootloader" /\ pc' = "Reset_Handler" => ~dfu]_vars
=============================================================================
