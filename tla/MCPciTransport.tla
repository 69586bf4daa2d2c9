--------------------------- MODULE MCPciTransport ---------------------------
(***************************************************************************)
(* What comments of the transports say that the PCI transport does not     *)
(* keep in the corners named by the configurations.                        *)
(***************************************************************************)
EXTENDS PciTransport

(* "Buffer addresses must be guest-physical (DMA-accessible by device)"    *)
(* (virtqueue.h): the response address given to AddBuf is that of the      *)
(* mapping the transport reads the answer from.                            *)
BufferAddressIsMapped == \A c \in chains : c.mem = respVirt

(* "device rejected MSI-X vector, falling back to INTx"                    *)
(* (pci_transport.cpp): interrupts reach the driver after that as before.  *)
FallbackSignals == Announced
=============================================================================
