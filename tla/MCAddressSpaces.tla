-------------------------- MODULE MCAddressSpaces --------------------------
EXTENDS AddressSpacesProps

\* From what the boot needs to more than MaxProcesses need.
SomeSizes == 8..70
=============================================================================
