-------------------------------- MODULE DmaHeap --------------------------------
(***************************************************************************)
(* dma_buf_alloc and dma_buf_free (src/src/dma_alloc.cpp), for the modules *)
(* that keep account of what the program holds.                            *)
(***************************************************************************)

\* What a call of dma_buf_alloc that returns an error leaves behind: nothing
\* when the heap cannot be opened, the descriptor of the heap when the ioctl
\* fails, and the buffer as well when mmap fails.
FailedAllocLeaves == {{}, {"heap_fd"}, {"heap_fd", "unmapped"}}

\* What a successful one gives, and dma_buf_free takes back: the mapping and
\* the descriptor of the buffer.  The heap is closed.
Buffer == {"va", "fd"}
================================================================================
