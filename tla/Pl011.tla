-------------------------------- MODULE Pl011 --------------------------------
(***************************************************************************)
(* The boot of the UART driver,                                            *)
(* product/corstone-1000/module/pl011/src/mod_pl011.c: a table of devices, *)
(* and the divisors that give each its baud rate.  What is put through the *)
(* UART afterwards is in LogUart.                                          *)
(***************************************************************************)
EXTENDS Integers, FiniteSets

CONSTANTS
  DeviceConfigs,   (* bound: the devices a product may configure           *)
  DeviceCounts     (* bound: how many elements the module may have         *)

(* struct mod_pl011_device_config; the address 0 is no device.             *)
DeviceConfig == [reg_base : Nat, baud_rate_bps : Nat, clock_rate_hz : Nat]

ASSUME UartAssumption ==
  DeviceConfigs \subseteq DeviceConfig /\ DeviceCounts \subseteq Nat

UART_CLK_MHZ == 1000000
PL011_UARTCLK_MIN == 1420000
PL011_UARTCLK_MAX == 542720000

(* The UART of the products: Corstone-1000 and Corstone-700 differ in the  *)
(* clock.  1 stands for the address of its registers.                      *)
Corstone1000Uart ==
  [reg_base |-> 1, baud_rate_bps |-> 115200,
   clock_rate_hz |-> 50 * UART_CLK_MHZ]
Corstone700Uart ==
  [reg_base |-> 1, baud_rate_bps |-> 115200,
   clock_rate_hz |-> 32 * UART_CLK_MHZ]

NoTable == <<"no table">>
NoConfig == [reg_base |-> 0, baud_rate_bps |-> 0, clock_rate_hz |-> 0]

VARIABLES
  uartStatus,      (* what the last call of the boot returned, "boot"      *)
                   (* before the first                                     *)
  uartTable,       (* device_config_table, one entry for each element      *)
  uartRegs         (* the registers of the devices                         *)

uartVars == <<uartStatus, uartTable, uartRegs>>

(* The registers that the driver writes, as far as they matter: ECR and    *)
(* LCR_H go with CR.                                                       *)
Pl011Regs == [IBRD : Nat, FBRD : Nat, enabled : BOOLEAN]
Bases == {config.reg_base : config \in DeviceConfigs} \ {0}

UartInit ==
  /\ uartStatus = "boot"
  /\ uartTable = NoTable
  /\ uartRegs =
       [base \in Bases |-> [IBRD |-> 0, FBRD |-> 0, enabled |-> FALSE]]

(* pl011_init.  The table is zero: every entry is a null pointer.          *)
Pl011Init(count) ==
  /\ uartStatus = "boot"
  /\ IF count = 0 THEN uartStatus' = "FWK_E_DATA" /\ UNCHANGED uartTable
     ELSE \/ /\ uartStatus' = "FWK_SUCCESS"
             /\ uartTable' = [e \in 0..(count - 1) |-> NoConfig]
          \/ uartStatus' = "FWK_E_NOMEM" /\ UNCHANGED uartTable
  /\ UNCHANGED uartRegs

(* Mutant: the divisor is rounded up.                                      *)
DivisorUp(config) ==
  (4 * config.clock_rate_hz) \div config.baud_rate_bps + 1

(* The rate is the clock over sixteen times the divisor, which counts 64ths*)
Divisor(config) == (4 * config.clock_rate_hz) \div config.baud_rate_bps

(* The checks of set_baud_rate, in their order.                            *)
BaudRateStatus(config) ==
  LET integer == Divisor(config) \div 64
      fractional == Divisor(config) % 64
  IN IF config.baud_rate_bps = 0 THEN "FWK_E_PARAM"
     ELSE IF config.clock_rate_hz \notin PL011_UARTCLK_MIN..PL011_UARTCLK_MAX
     THEN "FWK_E_PARAM"
     ELSE IF config.baud_rate_bps > 4 * config.clock_rate_hz THEN "FWK_E_RANGE"
     ELSE IF integer > 65535 \/ fractional > 63 THEN "FWK_E_RANGE"
     ELSE IF integer = 65535 /\ fractional # 0 THEN "FWK_E_RANGE"
     ELSE "FWK_SUCCESS"

(* pl011_element_init; the boot goes on after FWK_SUCCESS only.            *)
Pl011ElementInit(e, config) ==
  LET status == IF config.reg_base = 0 THEN "FWK_E_DATA"
                ELSE BaudRateStatus(config)
  IN /\ uartStatus = "FWK_SUCCESS"
     /\ e \in DOMAIN uartTable
     /\ uartTable[e] = NoConfig
     /\ \A earlier \in 0..(e - 1) : uartTable[earlier] # NoConfig
     /\ uartStatus' = status
     /\ IF status # "FWK_SUCCESS" THEN UNCHANGED <<uartTable, uartRegs>>
        ELSE /\ uartRegs' = [uartRegs EXCEPT ![config.reg_base] =
                  [IBRD |-> Divisor(config) \div 64,
                   FBRD |-> Divisor(config) % 64, enabled |-> TRUE]]
             /\ uartTable' = [uartTable EXCEPT ![e] = config]

(* Every device has registers of its own, which the linker and the memory  *)
(* map of the product see to.                                              *)
FreeConfigs ==
  {config \in DeviceConfigs : uartTable # NoTable =>
     \A e \in DOMAIN uartTable :
       uartTable[e] # NoConfig => uartTable[e].reg_base # config.reg_base}

UartNext ==
  \/ \E count \in DeviceCounts : Pl011Init(count)
  \/ /\ uartTable # NoTable
     /\ \E e \in DOMAIN uartTable, config \in FreeConfigs :
          Pl011ElementInit(e, config)

UartSpec == UartInit /\ [][UartNext]_uartVars

(* get_device_reg of an element of the module.                             *)
GetDeviceReg(e) == uartRegs[uartTable[e].reg_base]

(* An enabled device has divisors that its registers hold, and no other    *)
(* divisor would bring it closer to its baud rate from above: the rate is  *)
(* never too low.  A device whose rate is refused stays disabled.          *)
BaudRatesKept ==
  /\ uartTable # NoTable => \A e \in DOMAIN uartTable :
       uartTable[e] # NoConfig =>
         LET config == uartTable[e]
             regs == GetDeviceReg(e)
             clock_x4 == 4 * config.clock_rate_hz
             divisor == 64 * regs.IBRD + regs.FBRD
         IN /\ regs.enabled
            /\ regs.IBRD < 2^16 /\ regs.FBRD < 2^6
            /\ divisor * config.baud_rate_bps <= clock_x4
            /\ clock_x4 - divisor * config.baud_rate_bps < config.baud_rate_bps
  /\ \A base \in Bases : uartRegs[base].enabled =>
       uartTable # NoTable /\ \E e \in DOMAIN uartTable :
                                uartTable[e].reg_base = base
=============================================================================
